---- MODULE Spec2Model ----
(***************************************************************************)
(* Model of the morning-alarm scheduling core:                             *)
(*   src/utils/alarmScheduler.ts   permission gate, trigger time, schedule *)
(*   src/utils/audioStorage.ts     playback asset cache                    *)
(*   src/unnamed/part_000          notification sound cache                *)
(*   src/app/playback.tsx          the scheduling session (orchestrator)   *)
(*                                                                         *)
(* Strings the code inspects (wake time, audio reference) are sequences of *)
(* one-character strings, so that split / Number / the data-URI regular    *)
(* expression are computed and not assumed.  Instants are milliseconds     *)
(* since local midnight of day 0; an Invalid Date / NaN is the value NaN.  *)
(* A value that may be null is Null (the empty sequence) or the value.     *)
(***************************************************************************)
EXTENDS Integers, Sequences, FiniteSets, TLC

\* ------------------------------------------------------------------ bounds
MaxAttempts == 2      \* schedule presses per run
MaxFaults == 1        \* platform calls that fail per run

\* ------------------------------------------------------- time and numbers
\* NaN / Invalid Date: numbers of the model are never negative otherwise
NaN == 0 - 1
\* null or undefined: for a string-valued field, for a sequence-valued one
None == "null"
Null == <<>>

MsPerSecond == 1000
MsPerMinute == 60 * MsPerSecond
MsPerHour == 60 * MsPerMinute
MsPerDay == 24 * MsPerHour

IsNum(x) == x # NaN

\* Math.floor(a / b) for b > 0 (TLA+ \div already rounds towards -infinity)
FloorDiv(a, b) == a \div b

Max(a, b) == IF a >= b THEN a ELSE b

\* local midnight of the day an instant falls on
StartOfDay(t) == (t \div MsPerDay) * MsPerDay

\* ----------------------------------------------------------------- strings
Digits == <<"0", "1", "2", "3", "4", "5", "6", "7", "8", "9">>

IsDigit(c) == \E i \in 1..10 : Digits[i] = c

DigitVal(c) == (CHOOSE i \in 1..10 : Digits[i] = c) - 1

StartsWith(s, p) == /\ Len(s) >= Len(p)
                    /\ \A i \in 1..Len(p) : s[i] = p[i]

\* String.prototype.split(sep) for a one-character separator
RECURSIVE SplitFrom(_, _, _, _)
SplitFrom(s, sep, i, cur) ==
  IF i > Len(s) THEN <<cur>>
  ELSE IF s[i] = sep THEN <<cur>> \o SplitFrom(s, sep, i + 1, <<>>)
  ELSE SplitFrom(s, sep, i + 1, Append(cur, s[i]))

Split(s, sep) == SplitFrom(s, sep, 1, <<>>)

\* Number(string) on strings over digits and letters: "" is 0, a run of
\* digits is its decimal value, anything else is NaN
RECURSIVE DecimalValue(_, _)
DecimalValue(s, n) ==
  IF n = 0 THEN 0 ELSE DecimalValue(s, n - 1) * 10 + DigitVal(s[n])

ToNumber(s) ==
  IF \A i \in 1..Len(s) : IsDigit(s[i]) THEN DecimalValue(s, Len(s)) ELSE NaN

\* Date.prototype.setHours(h, m, 0, 0) on a date whose value is t; an
\* argument that is NaN or undefined makes the date invalid; out-of-range
\* hours and minutes roll over
SetHours(t, h, m) ==
  IF IsNum(t) /\ IsNum(h) /\ IsNum(m)
  THEN StartOfDay(t) + h * MsPerHour + m * MsPerMinute
  ELSE NaN

\* Date.prototype.setDate(getDate() + 1): the same local time one day later
AddOneDay(t) == IF IsNum(t) THEN t + MsPerDay ELSE NaN

\* variant: a wake time equal to the current instant counts as still ahead
DateLt(a, b) == IsNum(a) /\ IsNum(b) /\ a < b

\* a <= b on dates; any comparison with an invalid date is false
DateLeq(a, b) == IsNum(a) /\ IsNum(b) /\ a <= b

\* wakeUpTime.split(':').map(Number), destructured into [hours, minutes]
ParseWakeUpTime(wakeUpTime) ==
  LET parts == Split(wakeUpTime, ":")
  IN [hours |-> ToNumber(parts[1]),
      minutes |-> IF Len(parts) >= 2 THEN ToNumber(parts[2]) ELSE NaN]

\* variant: the wake time is never moved to the next day
calculateNextAlarmTimeSameDay(wakeUpTime, now0, now1) ==
  LET hm == ParseWakeUpTime(wakeUpTime)
  IN SetHours(now1, hm.hours, hm.minutes)

\* calculateNextAlarmTime, with the two clock reads `now` and `alarmTime`
\* (new Date() twice) passed separately: now0 <= now1
calculateNextAlarmTime(wakeUpTime, now0, now1) ==
  LET hm == ParseWakeUpTime(wakeUpTime)
      alarmTime == SetHours(now1, hm.hours, hm.minutes)
  IN IF DateLeq(alarmTime, now0) THEN AddOneDay(alarmTime) ELSE alarmTime

\* variant: no lower limit on the delay
secondsUntilAlarmUnlimited(alarmTime, now) ==
  IF IsNum(alarmTime) THEN FloorDiv(alarmTime - now, MsPerSecond) ELSE NaN

\* Math.max(1, Math.floor((alarmTime.getTime() - Date.now()) / 1000))
secondsUntilAlarm(alarmTime, now) ==
  IF IsNum(alarmTime) THEN Max(1, FloorDiv(alarmTime - now, MsPerSecond)) ELSE NaN


\* ------------------------------------------------- audio source references
DataPrefix == <<"d", "a", "t", "a", ":">>
Base64Marker == <<";", "b", "a", "s", "e", "6", "4", ",">>
B64Alphabet == <<"A", "B", "C", "D", "E", "F", "G", "H", "I", "J", "K", "L", "M", "N", "O", "P", "Q", "R", "S", "T", "U", "V", "W", "X", "Y", "Z", "a", "b", "c", "d", "e", "f", "g", "h", "i", "j", "k", "l", "m", "n", "o", "p", "q", "r", "s", "t", "u", "v", "w", "x", "y", "z", "0", "1", "2", "3", "4", "5", "6", "7", "8", "9", "+", "/">>

\* url.startsWith('data:')
isDataUri(url) == StartsWith(url, DataPrefix)

\* position of the first ";" of s at or after position i, or 0
RECURSIVE FirstSemicolon(_, _)
FirstSemicolon(s, i) ==
  IF i > Len(s) THEN 0 ELSE IF s[i] = ";" THEN i ELSE FirstSemicolon(s, i + 1)

\* dataUri.match(/^data:[^;]+;base64,(.+)$/): [^;]+ ends at the first ";",
\* which must open ";base64,"; (.+) is the non-empty rest, free of line ends
extractBase64FromDataUri(dataUri) ==
  LET k == FirstSemicolon(dataUri, Len(DataPrefix) + 1)
      rest == IF k = 0 THEN <<>> ELSE SubSeq(dataUri, k, Len(dataUri))
      payload == IF Len(rest) > Len(Base64Marker)
                 THEN SubSeq(rest, Len(Base64Marker) + 1, Len(rest)) ELSE <<>>
  IN IF /\ StartsWith(dataUri, DataPrefix)
        /\ k > Len(DataPrefix) + 1
        /\ StartsWith(rest, Base64Marker)
        /\ Len(payload) >= 1
        /\ \A i \in 1..Len(payload) : payload[i] # "\n"
     THEN payload ELSE Null

\* what EncodingType.Base64 makes the platform write: the decoded bytes;
\* ok is FALSE when the text is not base64 (the write is then rejected)
B64Val(c) == (CHOOSE i \in 1..64 : B64Alphabet[i] = c) - 1

IsB64Char(c) == \E i \in 1..64 : B64Alphabet[i] = c

B64Quad(q) ==
  LET pad == IF q[4] # "=" THEN 0 ELSE IF q[3] # "=" THEN 1 ELSE 2
      v(i) == IF q[i] = "=" THEN 0 ELSE B64Val(q[i])
      n == ((v(1) * 64 + v(2)) * 64 + v(3)) * 64 + v(4)
      bytes == <<n \div 65536, (n \div 256) % 256, n % 256>>
  IN SubSeq(bytes, 1, 3 - pad)

RECURSIVE B64Quads(_)
B64Quads(s) ==
  IF Len(s) = 0 THEN <<>> ELSE B64Quad(SubSeq(s, 1, 4)) \o B64Quads(SubSeq(s, 5, Len(s)))

Base64Decode(s) ==
  LET n == Len(s)
      body == IF n >= 1 /\ s[n] = "=" THEN (IF n >= 2 /\ s[n - 1] = "=" THEN n - 2 ELSE n - 1)
              ELSE n
  IN IF n % 4 = 0 /\ n > 0 /\ \A i \in 1..body : IsB64Char(s[i])
     THEN [ok |-> TRUE, bytes |-> B64Quads(s)] ELSE [ok |-> FALSE, bytes |-> <<>>]

\* ------------------------------------------------------- local file system
\* fs is the set of existing entries <<path, content>>; a path is the
\* sequence of its components; content says what the entry holds
DirEntry == [t |-> "dir", bytes |-> <<>>, url |-> <<>>]
Absent == [t |-> "absent", bytes |-> <<>>, url |-> <<>>]
\* a file holding the bytes decoded from an inline payload
Decoded(bytes) == [t |-> "bytes", bytes |-> bytes, url |-> <<>>]
\* a file holding the body served at url
Fetched(url) == [t |-> "body", bytes |-> <<>>, url |-> url]
\* a file left behind by a write or transfer that did not complete
Partial == [t |-> "partial", bytes |-> <<>>, url |-> <<>>]

AUDIO_DIRNAME == "morning-audio"
AUDIO_FILENAME == "morning-alarm.mp3"
NOTIFICATION_SOUND_FILENAME == "morning-alarm-notification.wav"

documentDirectory == <<"app", "Documents">>

getAudioDirectoryPath == Append(documentDirectory, AUDIO_DIRNAME)

getAudioFilePath == Append(getAudioDirectoryPath, AUDIO_FILENAME)

\* documentDirectory.replace('/Documents/', '/Library/Sounds/')
RECURSIVE ReplaceDocuments(_)
ReplaceDocuments(p) ==
  IF Len(p) = 0 THEN <<>>
  ELSE IF Head(p) = "Documents" THEN <<"Library", "Sounds">> \o Tail(p)
  ELSE <<Head(p)>> \o ReplaceDocuments(Tail(p))

getLibrarySoundsPath(os) ==
  IF os = "ios" THEN ReplaceDocuments(documentDirectory)
  ELSE Append(documentDirectory, "sounds")

getNotificationSoundPath(os) == Append(getLibrarySoundsPath(os), NOTIFICATION_SOUND_FILENAME)

Kinds == {"playback", "sound"}

DirPath(k, os) == IF k = "playback" THEN getAudioDirectoryPath ELSE getLibrarySoundsPath(os)

\* variant: both saves write to the playback path
FilePathShared(k, os) == getAudioFilePath

\* the fixed path of each kind (audioStorage.ts:19-21, part_000:23-25)
FilePath(k, os) == IF k = "playback" THEN getAudioFilePath ELSE getNotificationSoundPath(os)

Exists(files, p) == \E e \in files : e[1] = p

Content(files, p) == IF Exists(files, p) THEN (CHOOSE e \in files : e[1] = p)[2] ELSE Absent

Remove(files, p) == {e \in files : e[1] # p}

Put(files, p, c) == Remove(files, p) \cup {<<p, c>>}

\* ------------------------------------------------------------------ inputs
Platforms == {"ios", "android", "web"}

\* 10:00:00.000 and 10:59:59.999 of day 0
StartClocks == {10 * MsPerHour, 11 * MsPerHour - 1}

\* by how much the clock may have moved on between the three successive
\* reads of one scheduleAlarm call: one tick, before the second read or
\* before the third, or none
SyncDrift == {<<0, 0>>, <<1, 0>>, <<0, 1>>}

InlineUrl == <<"d", "a", "t", "a", ":", "a", "/", "w", ";", "b", "a", "s", "e", "6", "4", ",", "A", "A", "A", "A">>
RemoteUrl == <<"h", "t", "t", "p", "s", ":", "/", "/", "h", "/", "a">>
BadInlineUrl == <<"d", "a", "t", "a", ":", "a", "/", "w", ",", "A", "A", "A", "A">>
EmptyPayloadUrl == <<"d", "a", "t", "a", ":", "a", "/", "w", ";", "b", "a", "s", "e", "6", "4", ",">>
EmptyString == <<>>

\* the route parameters the playback screen can be opened with: wakeUpTime
\* HH:MM from the pickers (index.tsx:122), audioUrl '' when the synthesis
\* failed (generating.tsx:141), anything at all when the route is opened by URL
RouteParams ==
  << [name |-> "Ann", audioUrl |-> InlineUrl, wakeUpTime |-> <<"1", "1", ":", "0", "0">>],
     [name |-> "Bob", audioUrl |-> RemoteUrl, wakeUpTime |-> <<"1", "0", ":", "0", "0">>],
     [name |-> "Ann", audioUrl |-> EmptyString, wakeUpTime |-> <<"1", "1", ":", "0", "0">>],
     [name |-> "Bob", audioUrl |-> InlineUrl, wakeUpTime |-> EmptyString],
     [name |-> "Ann", audioUrl |-> BadInlineUrl, wakeUpTime |-> <<"1", "1", ":", "0", "0">>],
     [name |-> "Bob", audioUrl |-> RemoteUrl, wakeUpTime |-> <<"a", "b", ":", "c", "d">>],
     [name |-> "Ann", audioUrl |-> EmptyPayloadUrl, wakeUpTime |-> <<"1", "1", ":", "0", "0">>] >>

\* the routes the screen is opened with below; the last one is only handed
\* to the asset cache directly
ScreenRoutes == 1..(Len(RouteParams) - 1)

\* ------------------------------------------------------------------- state
VARIABLES
  platform,            \* Platform.OS
  hasNotificationApi,  \* 'Notification' in window (web)
  clock,               \* the device clock, ms
  permission,          \* the notification permission the platform holds
  registrations,       \* the scheduled notification requests the platform holds
  fs,                  \* the local file system
  faults,              \* how many platform calls have failed so far
  route,               \* useLocalSearchParams() of the mounted screen
  mounted,             \* isMounted.current
  schedulingStatus, errorMessage, scheduleResult, localAudioPath,   \* useState
  attempts,            \* how many times the schedule action was issued
  pc,                  \* where the handler in flight is suspended
  co,                  \* the two Promise.all branches: where each is, its result
  req,                 \* the request scheduleAlarm hands to the platform
  alarmTime,           \* scheduleAlarm's alarmTime
  resolvedAt,          \* calculateNextAlarmTime's now
  schedRes,            \* scheduleAlarm's return value
  calls,               \* collaborators the flow in flight has invoked
  fails,               \* steps of the flow under way whose primitive failed
  okCalls,             \* how many scheduleAlarm calls have returned success
  regsBefore,          \* registrations when the flow in flight started
  hist,                \* the statuses the session has gone through
  evalArgs,            \* the arguments of a utility function evaluated on its own
  evalResult           \* the values it has returned

deviceVars == <<platform, hasNotificationApi, clock, permission, registrations, fs>>
sessionVars == <<route, mounted, schedulingStatus, errorMessage, scheduleResult, localAudioPath>>
flowVars == <<attempts, pc, co, req, alarmTime, resolvedAt, schedRes>>
ghostVars == <<calls, fails, regsBefore, okCalls, hist>>
evalVars == <<evalArgs, evalResult>>
vars == <<deviceVars, faults, sessionVars, flowVars, ghostVars, evalVars>>

\* a platform call may fail (reject, report a bad status, lose its effect)
\* while fewer than MaxFaults calls have failed
Fault(failed) ==
  /\ failed => faults < MaxFaults
  /\ faults' = IF failed THEN faults + 1 ELSE faults

params == RouteParams[route]

OnWeb == platform = "web"

\* --------------------------------------------------------------- messages
MsgNoAudio == "No audio available to schedule."
MsgNoWakeUpTime == "No wake-up time specified."
MsgSaveFailed == "Failed to save audio. Please try again."
MsgPermissionRequired == "Notification permissions are required to schedule your morning alarm."
MsgScheduleFailed == "Failed to schedule alarm. Please try again."
MsgScheduleFailedDefault == "Failed to schedule alarm."
MsgWebCaveat == "Web notifications have limited background support. Keep the browser tab open for best results."
MsgCancelFailed == "Failed to cancel alarm. Please try again."

\* ------------------------------------------------- notification primitives
ALARM_NOTIFICATION_ID == "morning-alarm"
DefaultSound == "default"

\* the platform keeps one request per identifier: scheduling under an
\* identifier that is registered replaces that request
scheduleNotificationAsync(regs, r) == {x \in regs : x.identifier # r.identifier} \cup {r}

\* variant: the platform drops nothing
cancelScheduledNotificationAsyncKeeps(regs, id) == regs

\* the platform drops the request filed under id, if there is one
cancelScheduledNotificationAsync(regs, id) == {x \in regs : x.identifier # id}

\* variant: the request is filed under an identifier of its own
AlarmRequestOwnIdentifier(name, soundFileName, seconds, at) ==
  [identifier |-> name,
   title |-> "Good Morning!",
   body |-> <<name, ", your personalized morning audio is ready.">>,
   sound |-> IF soundFileName # Null THEN soundFileName[1] ELSE DefaultSound,
   type |-> "morning-alarm",
   seconds |-> seconds,
   at |-> at]

\* variant: the request always asks for the default sound (sound: true)
AlarmRequestDefaultSound(name, soundFileName, seconds, at) ==
  [identifier |-> ALARM_NOTIFICATION_ID,
   title |-> "Good Morning!",
   body |-> <<name, ", your personalized morning audio is ready.">>,
   sound |-> DefaultSound,
   type |-> "morning-alarm",
   seconds |-> seconds,
   at |-> at]

\* variant: the request always names the custom sound file
AlarmRequestCustomSound(name, soundFileName, seconds, at) ==
  [identifier |-> ALARM_NOTIFICATION_ID,
   title |-> "Good Morning!",
   body |-> <<name, ", your personalized morning audio is ready.">>,
   sound |-> NOTIFICATION_SOUND_FILENAME,
   type |-> "morning-alarm",
   seconds |-> seconds,
   at |-> at]

\* the content and trigger scheduleAlarm builds (alarmScheduler.ts:87-103);
\* at is the clock value `seconds` is relative to
AlarmRequest(name, soundFileName, seconds, at) ==
  [identifier |-> ALARM_NOTIFICATION_ID,
   title |-> "Good Morning!",
   body |-> <<name, ", your personalized morning audio is ready.">>,
   sound |-> IF soundFileName # Null THEN soundFileName[1] ELSE DefaultSound,
   type |-> "morning-alarm",
   seconds |-> seconds,
   at |-> at]

NoRequest == AlarmRequest("", Null, NaN, NaN)

\* ScheduleResult values (alarmScheduler.ts:22-26)
\* (hasTime: scheduledTime is set, to a Date that may be an Invalid Date)
ResultFailure(msg) == [success |-> FALSE, error |-> msg, hasTime |-> FALSE, scheduledTime |-> NaN]
ResultSuccess(t, caveat) == [success |-> TRUE, error |-> caveat, hasTime |-> TRUE, scheduledTime |-> t]
NoResult == ResultFailure(None)

\* ------------------------------------------------------------ initial state
Idle == <<"idle">>

CoDone(result) == [pc |-> "done", result |-> result]
CoAt(where) == [pc |-> where, result |-> Null]

\* the screen when it is first opened
InitScreen ==
  /\ platform \in Platforms
  /\ hasNotificationApi \in (IF platform = "web" THEN BOOLEAN ELSE {TRUE})
  /\ clock \in StartClocks
  /\ faults = 0
  /\ route \in 1..Len(RouteParams)
  /\ mounted = TRUE
  /\ schedulingStatus = "idle"
  /\ errorMessage = None
  /\ scheduleResult = Null
  /\ localAudioPath = Null
  /\ attempts = 0
  /\ pc = "none"
  /\ co = [k \in Kinds |-> CoDone(Null)]
  /\ req = NoRequest
  /\ alarmTime = NaN
  /\ resolvedAt = NaN
  /\ schedRes = NoResult
  /\ calls = {}
  /\ fails = {}
  /\ regsBefore = {}
  /\ okCalls = 0
  /\ hist = Idle

\* a device without registrations or assets
Init ==
  /\ InitScreen
  /\ route \in ScreenRoutes
  /\ permission = "undetermined"
  /\ registrations = {}
  /\ fs = {}
  /\ evalArgs = <<>>
  /\ evalResult = <<>>

\* setSchedulingStatus(s), with the history of the statuses kept beside it
SetStatus(s) ==
  /\ schedulingStatus' = s
  /\ hist' = IF s = schedulingStatus THEN hist ELSE Append(hist, s)

SetCo(k, v) == co' = [co EXCEPT ![k] = v]

\* ------------------------------------------------- the two MediaCache saves
\* saveAudioLocally / saveNotificationSound up to their first suspension
\* variant: the platform is not looked at
StartSaveEverywhere(k) == CoAt("dirInfo")

StartSave(k) ==
  IF OnWeb
  THEN CoDone(IF k = "playback" THEN params.audioUrl ELSE Null)
  ELSE CoAt("dirInfo")

\* what save returns once the asset is written
SavedResult(k) ==
  IF k = "playback" THEN getAudioFilePath ELSE <<NOTIFICATION_SOUND_FILENAME>>

\* variant: a data: reference that does not match is handed to the transfer
AfterClearAsRemote(k) ==
  IF extractBase64FromDataUri(params.audioUrl) = Null
  THEN CoAt("download") ELSE CoAt("write")

\* the classification of the source reference, reached once the fixed path
\* is clear: a data: reference that does not match throws, and is caught
AfterClear(k) ==
  IF isDataUri(params.audioUrl)
  THEN IF extractBase64FromDataUri(params.audioUrl) = Null
       THEN CoDone(Null) ELSE CoAt("write")
  ELSE CoAt("download")

\* ensureDirectoryExists: getInfoAsync(dirPath) resolves or rejects
SaveDirInfo(k) ==
  /\ pc = "saving" /\ co[k].pc = "dirInfo"
  /\ \E out \in {"ok", "throw"} :
       /\ Fault(out # "ok")
       /\ SetCo(k, IF out = "throw" THEN CoDone(Null)
                   ELSE IF Exists(fs, DirPath(k, platform)) THEN CoAt("fileInfo")
                   ELSE CoAt("mkdir"))
  /\ UNCHANGED <<evalVars, deviceVars, sessionVars, attempts, pc, req, alarmTime, resolvedAt, schedRes, ghostVars>>

\* makeDirectoryAsync(dirPath, {intermediates: true})
SaveMakeDir(k) ==
  /\ pc = "saving" /\ co[k].pc = "mkdir"
  /\ \E out \in {"ok", "throw"} :
       /\ Fault(out # "ok")
       /\ IF out = "ok"
          THEN /\ fs' = Put(fs, DirPath(k, platform), DirEntry)
               /\ SetCo(k, CoAt("fileInfo"))
          ELSE /\ fs' = fs
               /\ SetCo(k, CoDone(Null))
  /\ UNCHANGED <<evalVars, platform, hasNotificationApi, clock, permission, registrations,
                 sessionVars, attempts, pc, req, alarmTime, resolvedAt, schedRes, ghostVars>>

\* variant: an asset found at the fixed path is taken as the result
WhenAssetExistsReuse(k) == CoDone(SavedResult(k))

\* fileInfo.exists: the asset at the fixed path is deleted first
\* (audioStorage.ts:56-59, part_000:62-65)
WhenAssetExists(k) == CoAt("delete")

\* getInfoAsync(filePath): an existing asset is deleted before writing
SaveFileInfo(k) ==
  /\ pc = "saving" /\ co[k].pc = "fileInfo"
  /\ \E out \in {"ok", "throw"} :
       /\ Fault(out # "ok")
       /\ SetCo(k, IF out = "throw" THEN CoDone(Null)
                   ELSE IF Exists(fs, FilePath(k, platform)) THEN WhenAssetExists(k)
                   ELSE AfterClear(k))
  /\ UNCHANGED <<evalVars, deviceVars, sessionVars, attempts, pc, req, alarmTime, resolvedAt, schedRes, ghostVars>>

\* deleteAsync(filePath, {idempotent: true})
SaveDelete(k) ==
  /\ pc = "saving" /\ co[k].pc = "delete"
  /\ \E out \in {"ok", "throw"} :
       /\ Fault(out # "ok")
       /\ IF out = "ok"
          THEN /\ fs' = Remove(fs, FilePath(k, platform))
               /\ SetCo(k, AfterClear(k))
          ELSE /\ fs' = fs
               /\ SetCo(k, CoDone(Null))
  /\ UNCHANGED <<evalVars, platform, hasNotificationApi, clock, permission, registrations,
                 sessionVars, attempts, pc, req, alarmTime, resolvedAt, schedRes, ghostVars>>

\* variant: neither save looks at the path after writing
AfterWrittenUnchecked(k, status200) ==
  CoDone(IF status200 THEN SavedResult(k) ELSE Null)

\* what the playback save does when the write or the transfer has resolved:
\* it returns the path (audioStorage.ts:68-72, 74-80)
AfterWritten(k, status200) ==
  IF k = "playback"
  THEN CoDone(IF status200 THEN SavedResult(k) ELSE Null)
  ELSE IF status200 THEN CoAt("verify") ELSE CoDone(Null)

\* writeAsStringAsync(filePath, base64Data, {encoding: Base64}).  It writes
\* the decoded bytes, or rejects leaving nothing or a partial file, or (the
\* case part_000:84-87 guards against) resolves with nothing at the path
WriteOutcomes == {"ok", "lost", "throw", "throw_partial"}

WriteResolves(k, out) ==
  /\ pc = "saving" /\ co[k].pc = "write"
  /\ out \in WriteOutcomes
  /\ LET path == FilePath(k, platform)
         dec == Base64Decode(extractBase64FromDataUri(params.audioUrl))
     IN /\ IF dec.ok THEN Fault(out # "ok") ELSE out = "throw" /\ Fault(FALSE)
        /\ fs' = CASE out = "ok" -> Put(fs, path, Decoded(dec.bytes))
                   [] out = "throw_partial" -> Put(fs, path, Partial)
                   [] OTHER -> fs
        /\ SetCo(k, IF out \in {"ok", "lost"} THEN AfterWritten(k, TRUE) ELSE CoDone(Null))
  /\ UNCHANGED <<platform, hasNotificationApi, clock, permission, registrations,
                 sessionVars, attempts, pc, req, alarmTime, resolvedAt, schedRes, ghostVars>>

SaveWrite(k) ==
  /\ \E out \in WriteOutcomes : WriteResolves(k, out)
  /\ UNCHANGED evalVars

\* downloadAsync(audioUrl, filePath): status 200 with the body at the path,
\* another status (with or without a body written), a rejection (with or
\* without a partial file), or status 200 with nothing at the path
DownloadOutcomes == {"ok", "lost", "status", "status_file", "throw", "throw_partial"}

DownloadResolves(k, out) ==
  /\ pc = "saving" /\ co[k].pc = "download"
  /\ out \in DownloadOutcomes
  /\ LET path == FilePath(k, platform)
     IN /\ Fault(out # "ok")
        /\ fs' = CASE out = "ok" -> Put(fs, path, Fetched(params.audioUrl))
                   [] out \in {"status_file", "throw_partial"} -> Put(fs, path, Partial)
                   [] OTHER -> fs
        /\ SetCo(k, CASE out \in {"ok", "lost"} -> AfterWritten(k, TRUE)
                      [] out \in {"status", "status_file"} -> AfterWritten(k, FALSE)
                      [] OTHER -> CoDone(Null))
  /\ UNCHANGED <<platform, hasNotificationApi, clock, permission, registrations,
                 sessionVars, attempts, pc, req, alarmTime, resolvedAt, schedRes, ghostVars>>

SaveDownload(k) ==
  /\ \E out \in DownloadOutcomes : DownloadResolves(k, out)
  /\ UNCHANGED evalVars

\* saveNotificationSound only: getInfoAsync(soundPath) after writing
SaveVerify(k) ==
  /\ pc = "saving" /\ co[k].pc = "verify"
  /\ \E out \in {"ok", "throw"} :
       /\ Fault(out # "ok")
       /\ SetCo(k, IF out = "ok" /\ Exists(fs, FilePath(k, platform))
                   THEN CoDone(SavedResult(k)) ELSE CoDone(Null))
  /\ UNCHANGED <<evalVars, deviceVars, sessionVars, attempts, pc, req, alarmTime, resolvedAt, schedRes, ghostVars>>

\* variant: an attempt that finds a local path from an earlier attempt
\* skips the saves
BeginSavesResuming ==
  IF localAudioPath # Null
  THEN [co |-> [k \in Kinds |-> CoDone(IF k = "playback" THEN localAudioPath ELSE Null)],
        calls |-> {}]
  ELSE [co |-> [k \in Kinds |-> StartSave(k)],
        calls |-> {"save_playback", "save_sound"}]

\* Promise.all([saveAudioLocally(audioUrl), saveNotificationSound(audioUrl)])
\* is entered (playback.tsx:125-128): both saves are invoked
BeginSaves ==
  [co |-> [k \in Kinds |-> StartSave(k)],
   calls |-> {"save_playback", "save_sound"}]

\* variant: the handlers do not look at isMounted
DetachedIgnored == FALSE

\* !isMounted.current, tested after each await of the handlers
\* (playback.tsx:130, 147, 170, 177)
Detached == ~mounted

\* variant: only the audio reference is looked at
InputErrorAudioOnly(p) ==
  IF p.audioUrl = EmptyString THEN MsgNoAudio ELSE None

\* the message for a missing input, if one is missing: !audioUrl, then
\* !wakeUpTime (playback.tsx:110-120)
InputError(p) ==
  IF p.audioUrl = EmptyString THEN MsgNoAudio
  ELSE IF p.wakeUpTime = EmptyString THEN MsgNoWakeUpTime
  ELSE None

\* variant: the button is rendered whatever the status is
ScheduleOfferedAlways == TRUE

\* "Schedule Alarm" is rendered while the status is idle, "Try Again" while
\* it is error (playback.tsx:227-232, 293-297)
ScheduleOffered == schedulingStatus \in {"idle", "error"}

\* --------------------------------------------------------- handleScheduleAlarm
\* the schedule action: the "Schedule Alarm" button is rendered while the
\* status is idle, "Try Again" while it is error (playback.tsx:227, 293).
\* Runs handleScheduleAlarm up to the await of Promise.all (106-128)
PressSchedule ==
  /\ mounted /\ pc = "none"
  /\ ScheduleOffered
  /\ attempts < MaxAttempts
  /\ attempts' = attempts + 1
  /\ regsBefore' = registrations
  /\ okCalls' = okCalls
  /\ fails' = {}
  /\ IF InputError(params) # None
     THEN /\ errorMessage' = InputError(params)
          /\ SetStatus("error")
          /\ calls' = {}
          /\ co' = [k \in Kinds |-> CoDone(Null)]
          /\ UNCHANGED pc
     ELSE /\ SetStatus("saving")
          /\ errorMessage' = None
          /\ co' = BeginSaves.co
          /\ calls' = BeginSaves.calls
          /\ pc' = "saving"
  /\ req' = NoRequest
  /\ alarmTime' = NaN
  /\ resolvedAt' = NaN
  /\ schedRes' = NoResult
  /\ UNCHANGED <<evalVars, faults, deviceVars, route, mounted, scheduleResult, localAudioPath>>

\* requestNotificationPermissions up to its first suspension (28-37), entered
\* from scheduleAlarm (61-65): the next position and, when it returns at
\* once, the result scheduleAlarm returns for it
EnterPermission ==
  IF OnWeb
  THEN IF hasNotificationApi THEN "webPermission" ELSE "denied"
  ELSE "getPermissions"

\* variant: the notification sound's result is the one tested
SaveFailedChecksSound == co["sound"].result = Null

\* !savedPath (playback.tsx:132)
SaveFailed == co["playback"].result = Null

\* Promise.all has resolved (playback.tsx:130-145)
SavesDone ==
  /\ pc = "saving"
  /\ \A k \in Kinds : co[k].pc = "done"
  /\ IF Detached
     THEN /\ pc' = "none"
          /\ UNCHANGED <<schedulingStatus, hist, errorMessage, localAudioPath, schedRes, calls>>
     ELSE IF SaveFailed
     THEN /\ errorMessage' = MsgSaveFailed
          /\ SetStatus("error")
          /\ pc' = "none"
          /\ UNCHANGED <<localAudioPath, schedRes, calls>>
     ELSE /\ localAudioPath' = co["playback"].result
          /\ SetStatus("scheduling")
          /\ calls' = calls \cup {"permission"}
          /\ IF EnterPermission = "denied"
             THEN /\ schedRes' = ResultFailure(MsgPermissionRequired)
                  /\ pc' = "schedReturn"
             ELSE /\ schedRes' = schedRes
                  /\ pc' = EnterPermission
          /\ UNCHANGED errorMessage
  /\ UNCHANGED <<evalVars, faults, deviceVars, route, mounted, scheduleResult,
                 attempts, co, req, alarmTime, resolvedAt, fails, regsBefore, okCalls>>

\* ----------------------------------------------------------- scheduleAlarm
\* variant: no try/catch around the primitive
cancelExistingAlarmNoCatch(out) == IF out = "throw" THEN "raised" ELSE "returned"

\* cancelExistingAlarm catches what its primitive throws (118-126)
cancelExistingAlarm(out) == "returned"

\* lines 76-77 and 87-103, with the three clock reads now0 <= now1 <= now2
\* (calculateNextAlarmTime's two new Date(), then Date.now())
ScheduleComputation(wakeUpTime, name, soundFileName, now0, now1, now2) ==
  LET t == calculateNextAlarmTime(wakeUpTime, now0, now1)
  IN [alarmTime |-> t,
      now |-> now0,
      req |-> AlarmRequest(name, soundFileName, secondsUntilAlarm(t, now2), now2)]

\* variant: every answer counts as granted
HasPermissionAlways(status) == TRUE

\* variant: no answer counts as granted
HasPermissionNever(status) == FALSE

\* requestNotificationPermissions' result for a permission status
\* (=== 'granted', alarmScheduler.ts:32, 40, 44)
HasPermission(status) == status = "granted"

\* hasPermission is true: `await cancelExistingAlarm()` is entered (74)
PermissionGranted ==
  /\ calls' = calls \cup {"cancel"}
  /\ pc' = "cancelExisting"
  /\ UNCHANGED <<schedRes>>

\* getPermissionsAsync() resolves or rejects (37-41)
GetPermissions ==
  /\ pc = "getPermissions"
  /\ \E out \in {"ok", "throw"} :
       /\ Fault(out # "ok")
       /\ fails' = IF out = "throw" THEN fails \cup {"permission"} ELSE fails
       /\ IF out = "throw"
          THEN /\ schedRes' = ResultFailure(MsgScheduleFailed)
               /\ pc' = "schedReturn"
               /\ UNCHANGED calls
          ELSE IF HasPermission(permission)
          THEN PermissionGranted
          ELSE /\ pc' = "requestPermissions"
               /\ UNCHANGED <<schedRes, calls>>
  /\ UNCHANGED <<evalVars, deviceVars, sessionVars, attempts, co, req, alarmTime, resolvedAt,
                 regsBefore, okCalls, hist>>

\* requestPermissionsAsync() resolves with the user's answer, or rejects (43-44)
RequestPermissions ==
  /\ pc = "requestPermissions"
  /\ \E out \in {"granted", "denied", "throw"} :
       /\ Fault(out = "throw")
       /\ permission = "denied" => out # "granted"
       /\ permission' = IF out = "throw" THEN permission ELSE out
       /\ fails' = IF out = "throw" THEN fails \cup {"permission"} ELSE fails
       /\ IF out = "throw"
          THEN /\ schedRes' = ResultFailure(MsgScheduleFailed)
               /\ pc' = "schedReturn"
               /\ UNCHANGED calls
          ELSE IF HasPermission(out)
          THEN PermissionGranted
          ELSE /\ schedRes' = ResultFailure(MsgPermissionRequired)
               /\ pc' = "schedReturn"
               /\ UNCHANGED calls
  /\ UNCHANGED <<evalVars, platform, hasNotificationApi, clock, registrations, fs,
                 sessionVars, attempts, co, req, alarmTime, resolvedAt,
                 regsBefore, okCalls, hist>>

\* web: Notification.requestPermission() resolves (29-33); when granted,
\* cancelExistingAlarm returns at once and scheduleAlarm returns the
\* degraded success (74-85)
WebPermission ==
  /\ pc = "webPermission"
  /\ \E out \in {"granted", "denied", "default", "throw"}, d \in SyncDrift :
       /\ Fault(out = "throw")
       /\ permission = "denied" => out # "granted"
       /\ permission' = CASE out = "throw" -> permission
                          [] out = "default" -> "undetermined"
                          [] OTHER -> out
       /\ fails' = IF out = "throw" THEN fails \cup {"permission"} ELSE fails
       /\ IF out # "throw" /\ HasPermission(out)
          THEN LET c == ScheduleComputation(params.wakeUpTime, params.name, Null,
                                            clock, clock + d[1], clock + d[1] + d[2])
               IN /\ clock' = clock + d[1] + d[2]
                  /\ alarmTime' = c.alarmTime
                  /\ resolvedAt' = c.now
                  /\ schedRes' = ResultSuccess(c.alarmTime, MsgWebCaveat)
                  /\ calls' = calls \cup {"cancel"}
                  /\ okCalls' = okCalls + 1
          ELSE /\ d = <<0, 0>>
               /\ schedRes' = ResultFailure(IF out = "throw" THEN MsgScheduleFailed
                                            ELSE MsgPermissionRequired)
               /\ UNCHANGED <<clock, alarmTime, resolvedAt, calls, okCalls>>
       /\ pc' = "schedReturn"
  /\ UNCHANGED <<evalVars, platform, hasNotificationApi, registrations, fs,
                 sessionVars, attempts, co, req, regsBefore, hist>>

\* cancelScheduledNotificationAsync resolves or rejects (118-126); then
\* scheduleAlarm computes the trigger and hands the request to the platform
\* (76-103)
CancelExisting ==
  /\ pc = "cancelExisting"
  /\ \E out \in {"ok", "throw"}, d \in SyncDrift :
       /\ Fault(out # "ok")
       /\ registrations' = IF out = "ok"
                           THEN cancelScheduledNotificationAsync(registrations, ALARM_NOTIFICATION_ID)
                           ELSE registrations
       /\ fails' = IF out = "throw" THEN fails \cup {"cancel"} ELSE fails
       /\ IF cancelExistingAlarm(out) = "raised"
          THEN /\ d = <<0, 0>>
               /\ schedRes' = ResultFailure(MsgScheduleFailed)
               /\ pc' = "schedReturn"
               /\ UNCHANGED <<clock, alarmTime, resolvedAt, req, calls>>
          ELSE LET c == ScheduleComputation(params.wakeUpTime, params.name, co["sound"].result,
                                            clock, clock + d[1], clock + d[1] + d[2])
               IN /\ clock' = clock + d[1] + d[2]
                  /\ alarmTime' = c.alarmTime
                  /\ resolvedAt' = c.now
                  /\ req' = c.req
                  /\ calls' = calls \cup {"register"}
                  /\ pc' = "register"
                  /\ UNCHANGED schedRes
  /\ UNCHANGED <<evalVars, platform, hasNotificationApi, permission, fs,
                 sessionVars, attempts, co, regsBefore, okCalls, hist>>

\* scheduleNotificationAsync resolves or rejects (89-115); the platform
\* rejects a trigger whose interval is not a number
Register ==
  /\ pc = "register"
  /\ \E out \in {"ok", "throw"} :
       /\ Fault(out # "ok" /\ IsNum(req.seconds))
       /\ out = "ok" => IsNum(req.seconds)
       /\ fails' = IF out = "ok" THEN fails ELSE fails \cup {"register"}
       /\ IF out = "ok"
          THEN /\ registrations' = scheduleNotificationAsync(registrations, req)
               /\ schedRes' = ResultSuccess(alarmTime, None)
               /\ okCalls' = okCalls + 1
          ELSE /\ registrations' = registrations
               /\ schedRes' = ResultFailure(MsgScheduleFailed)
               /\ okCalls' = okCalls
  /\ pc' = "schedReturn"
  /\ UNCHANGED <<evalVars, platform, hasNotificationApi, clock, permission, fs,
                 sessionVars, attempts, co, req, alarmTime, resolvedAt,
                 calls, regsBefore, hist>>

\* variant: the two branches exchanged
StatusAfterScheduleSwapped(result) == IF result.success THEN "error" ELSE "scheduled"

\* variant: the status is left as it is when scheduleAlarm has returned
StatusAfterScheduleUnset(result) == "scheduling"

\* the status handleScheduleAlarm sets for a result (playback.tsx:151-159)
StatusAfterSchedule(result) == IF result.success THEN "scheduled" ELSE "error"

\* scheduleAlarm has returned (playback.tsx:147-159)
ScheduleReturned ==
  /\ pc = "schedReturn"
  /\ pc' = "none"
  /\ IF Detached
     THEN UNCHANGED <<schedulingStatus, hist, errorMessage, scheduleResult>>
     ELSE /\ scheduleResult' = <<schedRes>>
          /\ SetStatus(StatusAfterSchedule(schedRes))
          /\ errorMessage' = IF schedRes.error # None THEN schedRes.error
                              ELSE IF schedRes.success THEN errorMessage
                              ELSE MsgScheduleFailedDefault
  /\ UNCHANGED <<evalVars, faults, deviceVars, route, mounted, localAudioPath,
                 attempts, co, req, alarmTime, resolvedAt, schedRes, calls, fails, regsBefore, okCalls>>

\* ----------------------------------------------------------- handleCancelAlarm
Raised == <<"raised">>

\* variant: no try/catch around the primitives
deleteLocalAssetNoCatch(out) == IF out = "throw" THEN "raised" ELSE "returned"

\* deleteLocalAudio / deleteNotificationSound catch what their primitives
\* throw (audioStorage.ts:108-121, part_000:96-109)
deleteLocalAsset(out) == "returned"

\* "Cancel Scheduled Audio" is rendered while the status is scheduled and
\* the result carries a time (playback.tsx:245, 275-278)
CancelOffered ==
  /\ schedulingStatus = "scheduled"
  /\ scheduleResult # Null /\ scheduleResult[1].hasTime

\* the cancel action: its button is rendered while the status is scheduled
\* and the result carries a time (playback.tsx:243, 272).  Runs
\* handleCancelAlarm up to `await cancelExistingAlarm()` (162-167)
PressCancel ==
  /\ mounted /\ pc = "none"
  /\ CancelOffered
  /\ SetStatus("cancelling")
  /\ errorMessage' = None
  /\ calls' = {"cancel"}
  /\ fails' = {}
  /\ regsBefore' = registrations
  /\ okCalls' = okCalls
  /\ pc' = "cancelAlarm"
  /\ req' = NoRequest
  /\ alarmTime' = NaN
  /\ resolvedAt' = NaN
  /\ schedRes' = NoResult
  /\ UNCHANGED <<evalVars, faults, deviceVars, route, mounted, scheduleResult, localAudioPath,
                 attempts, co>>

\* the catch branch of handleCancelAlarm (175-180)
CancelCaught ==
  /\ pc' = "none"
  /\ IF Detached
     THEN UNCHANGED <<schedulingStatus, hist, errorMessage>>
     ELSE /\ errorMessage' = MsgCancelFailed
          /\ SetStatus("scheduled")

\* variant: every platform is treated as web, nothing is deleted
StartDeleteNothing(k) == CoDone(Null)

\* deleteLocalAudio / deleteNotificationSound up to their first suspension
StartDelete(k) == IF OnWeb THEN CoDone(Null) ELSE CoAt("delInfo")

\* cancelExistingAlarm has settled (167, 118-126); Promise.all of the two
\* deletes is entered (168)
CancelAlarm ==
  /\ pc = "cancelAlarm"
  /\ \E out \in {"ok", "throw"} :
       /\ Fault(out # "ok")
       /\ OnWeb => out = "ok"
       /\ registrations' = IF out = "ok" /\ ~OnWeb
                           THEN cancelScheduledNotificationAsync(registrations, ALARM_NOTIFICATION_ID)
                           ELSE registrations
       /\ fails' = IF out = "throw" THEN fails \cup {"cancel"} ELSE fails
       /\ IF cancelExistingAlarm(out) = "raised"
          THEN /\ CancelCaught
               /\ UNCHANGED <<co, calls>>
          ELSE /\ co' = [k \in Kinds |-> StartDelete(k)]
               /\ calls' = calls \cup {"remove_playback", "remove_sound"}
               /\ pc' = "deleting"
               /\ UNCHANGED <<schedulingStatus, hist, errorMessage>>
  /\ UNCHANGED <<evalVars, platform, hasNotificationApi, clock, permission, fs,
                 route, mounted, scheduleResult, localAudioPath,
                 attempts, req, alarmTime, resolvedAt, schedRes, regsBefore, okCalls>>

\* getInfoAsync(filePath) of a delete resolves or rejects
DeleteInfo(k) ==
  /\ pc = "deleting" /\ co[k].pc = "delInfo"
  /\ \E out \in {"ok", "throw"} :
       /\ Fault(out # "ok")
       /\ fails' = IF out = "throw" THEN fails \cup {k} ELSE fails
       /\ SetCo(k, IF out = "ok"
                   THEN (IF Exists(fs, FilePath(k, platform)) THEN CoAt("delFile") ELSE CoDone(Null))
                   ELSE IF deleteLocalAsset(out) = "raised" THEN CoDone(Raised)
                   ELSE CoDone(Null))
  /\ UNCHANGED <<evalVars, deviceVars, sessionVars, attempts, pc, req, alarmTime, resolvedAt, schedRes,
                 calls, regsBefore, okCalls, hist>>

\* deleteAsync(filePath, {idempotent: true}) of a delete resolves or rejects
DeleteFile(k) ==
  /\ pc = "deleting" /\ co[k].pc = "delFile"
  /\ \E out \in {"ok", "throw"} :
       /\ Fault(out # "ok")
       /\ fails' = IF out = "throw" THEN fails \cup {k} ELSE fails
       /\ fs' = IF out = "ok" THEN Remove(fs, FilePath(k, platform)) ELSE fs
       /\ SetCo(k, IF out = "throw" /\ deleteLocalAsset(out) = "raised"
                   THEN CoDone(Raised) ELSE CoDone(Null))
  /\ UNCHANGED <<evalVars, platform, hasNotificationApi, clock, permission, registrations,
                 sessionVars, attempts, pc, req, alarmTime, resolvedAt, schedRes,
                 calls, regsBefore, okCalls, hist>>

\* Promise.all of the deletes has settled (170-174, or the catch branch)
CancelDone ==
  /\ pc = "deleting"
  /\ \A k \in Kinds : co[k].pc = "done"
  /\ IF \E k \in Kinds : co[k].result = Raised
     THEN /\ CancelCaught
          /\ UNCHANGED <<scheduleResult, localAudioPath>>
     ELSE /\ pc' = "none"
          /\ IF Detached
             THEN UNCHANGED <<schedulingStatus, hist, scheduleResult, localAudioPath>>
             ELSE /\ SetStatus("idle")
                  /\ scheduleResult' = Null
                  /\ localAudioPath' = Null
          /\ UNCHANGED errorMessage
  /\ UNCHANGED <<evalVars, faults, deviceVars, route, mounted,
                 attempts, co, req, alarmTime, resolvedAt, schedRes, calls, fails, regsBefore, okCalls>>

\* getLocalAudioPath finds an asset of kind k (audioStorage.ts:88-106; the
\* same query on the notification sound's path)
Loaded(k) == ~OnWeb /\ Exists(fs, FilePath(k, platform))

\* ------------------------------------------------------------ the observer
\* the effect's cleanup: the screen is unmounted (playback.tsx:33-38)
Unmount ==
  /\ mounted
  /\ mounted' = FALSE
  /\ UNCHANGED <<evalVars, faults, deviceVars, route, schedulingStatus, errorMessage,
                 scheduleResult, localAudioPath, flowVars, ghostVars>>

\* the screen is opened again, with new route parameters and fresh state
\* (playback.tsx:13-30), once the flow of the previous screen has ended
Mount ==
  /\ ~mounted /\ pc = "none"
  /\ route' \in ScreenRoutes
  /\ mounted' = TRUE
  /\ schedulingStatus' = "idle"
  /\ hist' = Idle
  /\ errorMessage' = None
  /\ scheduleResult' = Null
  /\ localAudioPath' = Null
  /\ co' = [k \in Kinds |-> CoDone(Null)]
  /\ req' = NoRequest
  /\ alarmTime' = NaN
  /\ resolvedAt' = NaN
  /\ schedRes' = NoResult
  /\ calls' = {}
  /\ fails' = {}
  /\ regsBefore' = registrations
  /\ okCalls' = okCalls
  /\ UNCHANGED <<evalVars, faults, deviceVars, attempts, pc>>

\* the user withdraws the notification permission in the system settings,
\* between two flows
PermissionRevoked ==
  /\ pc = "none"
  /\ permission = "granted"
  /\ permission' = "denied"
  /\ UNCHANGED <<evalVars, platform, hasNotificationApi, clock, registrations, fs, faults,
                 sessionVars, flowVars, ghostVars>>

Next ==
  \/ PressSchedule
  \/ \E k \in Kinds : SaveDirInfo(k)
  \/ \E k \in Kinds : SaveMakeDir(k)
  \/ \E k \in Kinds : SaveFileInfo(k)
  \/ \E k \in Kinds : SaveDelete(k)
  \/ \E k \in Kinds : SaveWrite(k)
  \/ \E k \in Kinds : SaveDownload(k)
  \/ SaveVerify("sound")
  \/ SavesDone
  \/ GetPermissions
  \/ RequestPermissions
  \/ WebPermission
  \/ CancelExisting
  \/ Register
  \/ ScheduleReturned
  \/ PressCancel
  \/ CancelAlarm
  \/ \E k \in Kinds : DeleteInfo(k)
  \/ \E k \in Kinds : DeleteFile(k)
  \/ CancelDone
  \/ Unmount
  \/ Mount
  \/ PermissionRevoked

Spec == Init /\ [][Next]_vars

\* ================================================================== claims
\* scheduleAlarm has just returned success
ScheduleSucceeded == pc = "schedReturn" /\ schedRes.success

\* scheduleAlarm has just created a registration
RegistrationCreated == ScheduleSucceeded /\ ~OnWeb

\* r carries the body, sound and trigger delay of the call that has just
\* returned: the body names the session's user, the sound is the saved sound
\* file when its save returned one, the delay is the whole seconds from the
\* clock read at registration to the returned instant, at least 1
CarriesThisCall(r) ==
  /\ r.identifier = ALARM_NOTIFICATION_ID
  /\ r.body = <<params.name, ", your personalized morning audio is ready.">>
  /\ r.sound = IF co["sound"].result # Null THEN NOTIFICATION_SOUND_FILENAME ELSE DefaultSound
  /\ resolvedAt <= r.at /\ r.at <= clock
  /\ r.seconds = Max(1, FloorDiv(schedRes.scheduledTime - r.at, MsPerSecond))

\* C1: after any sequence of schedule and cancel operations, successful or
\* failed, the platform holds at most one registration, and only under the
\* fixed identifier 'morning-alarm'
C1_AtMostOneRegistration ==
  /\ Cardinality(registrations) <= 1
  /\ \A r \in registrations : r.identifier = ALARM_NOTIFICATION_ID

\* a schedule call has created its registration while an earlier, different
\* one was registered
C1_Witness ==
  /\ RegistrationCreated
  /\ regsBefore # {} /\ registrations # {} /\ registrations # regsBefore

\* C2 (as stated): after the second of two successful schedule calls exactly
\* one registration exists, with that call's trigger delay, body and sound
C2_Original ==
  (ScheduleSucceeded /\ okCalls >= 2) =>
    \E r \in registrations : registrations = {r} /\ CarriesThisCall(r)

\* C2 (amended): after the second of two successful schedule calls, on iOS
\* and Android exactly one registration exists, with that call's trigger
\* delay, body and sound; on web a successful call creates no registration
C2_SecondCallWins ==
  (ScheduleSucceeded /\ okCalls >= 2) =>
    IF OnWeb THEN registrations = {}
    ELSE \E r \in registrations : registrations = {r} /\ CarriesThisCall(r)

\* the second call has replaced a registration with another body
C2_Witness ==
  /\ RegistrationCreated /\ okCalls >= 2
  /\ \E r \in regsBefore : r.body[1] # params.name
  /\ \E r \in registrations : r.body[1] = params.name

PastPermissionGate == pc \in {"cancelExisting", "register", "schedReturn"}

\* the statuses of the session since it was last Idle
LastIdle == CHOOSE i \in 1..Len(hist) :
              hist[i] = "idle" /\ \A j \in (i + 1)..Len(hist) : hist[j] # "idle"
SinceIdle == SubSeq(hist, LastIdle, Len(hist))
Statuses(h) == {h[i] : i \in 1..Len(h)}

\* the last two statuses of the session
LastEdge == IF Len(hist) >= 2 THEN <<hist[Len(hist) - 1], hist[Len(hist)]>> ELSE <<"none", hist[1]>>

\* every status change of the session is one of `edges`
ChangesAlong(edges) == \A i \in 1..(Len(hist) - 1) : <<hist[i], hist[i + 1]>> \in edges

\* a cancel flow is in flight or was the last flow of the session
InCancelFlow == "cancel" \in calls /\ "permission" \notin calls

TeardownSteps == {"cancel", "remove_playback", "remove_sound"}

\* C4: when the permission gate does not grant, scheduleAlarm returns a
\* failure without invoking the cancel of the existing registration or the
\* registration step, the registrations are those from before the attempt,
\* and the session reaches Error with the permission message
C4_DeniedLeavesRegistrations ==
  /\ (PastPermissionGate /\ permission # "granted") =>
       /\ pc = "schedReturn" /\ ~schedRes.success
       /\ "cancel" \notin calls /\ "register" \notin calls
       /\ registrations = regsBefore
  /\ (mounted /\ pc = "none" /\ schedRes = ResultFailure(MsgPermissionRequired)) =>
       /\ schedulingStatus = "error"
       /\ errorMessage = MsgPermissionRequired
       /\ LastEdge = <<"scheduling", "error">>
       /\ registrations = regsBefore

\* the gate has denied an attempt made while a registration existed
C4_Witness ==
  /\ mounted /\ pc = "none" /\ schedRes = ResultFailure(MsgPermissionRequired)
  /\ permission = "denied"
  /\ registrations # {}

\* C5: an attempt from Idle whose saves, permission gate and registration
\* all succeed takes the status through exactly Idle, Saving, Scheduling,
\* Scheduled, and Scheduled is left only by a cancel
C5_HappyPath ==
  /\ (mounted /\ pc = "none" /\ schedRes.success) => schedulingStatus = "scheduled"
  /\ (schedulingStatus = "scheduled" /\ "error" \notin Statuses(SinceIdle)) =>
       SinceIdle = <<"idle", "saving", "scheduling", "scheduled">>
  /\ (mounted /\ schedulingStatus = "scheduled") => pc = "none"
  /\ \A i \in 1..(Len(hist) - 1) : hist[i] = "scheduled" => hist[i + 1] = "cancelling"

\* a first attempt has ended in Scheduled with its registration in place
C5_Witness ==
  /\ mounted /\ pc = "none" /\ schedRes.success
  /\ hist = <<"idle", "saving", "scheduling", "scheduled">>
  /\ registrations # {}

\* C6 (as stated): the instant carried in Scheduled is at least one second
\* later than the clock value at registration
C6_Original ==
  (schedulingStatus = "scheduled" /\ ~OnWeb) =>
    scheduleResult[1].scheduledTime >= req.at + MsPerSecond

\* C6 (amended): for a wake time that parses, the instant carried in
\* Scheduled is strictly later than the clock value it was resolved from,
\* and the delay handed to the platform is at least one second; the instant
\* itself may be less than a second after the clock value at registration
C6_TriggerAfterNow ==
  (schedulingStatus = "scheduled" /\ IsNum(scheduleResult[1].scheduledTime)) =>
    /\ scheduleResult[1].scheduledTime > resolvedAt
    /\ ~OnWeb => req.seconds >= 1

\* Scheduled carries an instant less than a second after the registration
C6_Witness ==
  /\ schedulingStatus = "scheduled" /\ ~OnWeb
  /\ scheduleResult[1].scheduledTime < req.at + MsPerSecond
  /\ req.seconds = 1

C8_TeardownBestEffort ==
  /\ (InCancelFlow /\ pc \in {"deleting", "none"}) => TeardownSteps \subseteq calls
  /\ (InCancelFlow /\ pc = "none" /\ mounted) => schedulingStatus = "idle"
  /\ \A i \in 1..(Len(hist) - 1) : hist[i] = "cancelling" => hist[i + 1] = "idle"

\* a cancel flow in which a teardown primitive failed has ended in Idle
C8_Witness ==
  /\ InCancelFlow /\ pc = "none" /\ mounted
  /\ fails # {}
  /\ schedulingStatus = "idle"

\* C9: when the playback save returns null the attempt ends there: the
\* status goes from Saving to Error with the save-failed message, and the
\* permission gate, the cancel of an existing registration and the
\* registration are not invoked
C9_SaveFailureStops ==
  ("save_playback" \in calls /\ pc # "saving" /\ co["playback"].result = Null) =>
    /\ pc = "none"
    /\ calls = {"save_playback", "save_sound"}
    /\ registrations = regsBefore
    /\ mounted => /\ schedulingStatus = "error"
                  /\ errorMessage = MsgSaveFailed
                  /\ LastEdge = <<"saving", "error">>

\* the playback save has failed in an attempt made while a registration
\* existed and the notification sound was saved
C9_Witness ==
  /\ "save_playback" \in calls /\ pc = "none" /\ mounted
  /\ co["playback"].result = Null /\ co["sound"].result # Null
  /\ schedulingStatus = "error"
  /\ registrations # {}

StatedEdges ==
  {<<"idle", "saving">>, <<"saving", "scheduling">>, <<"saving", "error">>,
   <<"scheduling", "scheduled">>, <<"scheduling", "error">>,
   <<"scheduled", "cancelling">>, <<"cancelling", "idle">>, <<"error", "saving">>}

\* C10 (as stated): the status changes only along Idle->Saving,
\* Saving->Scheduling, Saving->Error, Scheduling->Scheduled,
\* Scheduling->Error, Scheduled->Cancelling, Cancelling->Idle, Error->Saving
C10_Original == ChangesAlong(StatedEdges)

\* C10 (amended): the status changes only along the stated edges and
\* Idle->Error (a schedule action with an empty audio reference or an empty
\* wake time)
C10_StatusEdges ==
  /\ hist[1] = "idle" /\ hist[Len(hist)] = schedulingStatus
  /\ ChangesAlong(StatedEdges \cup {<<"idle", "error">>})

\* a schedule action with an empty audio reference has taken the status
\* from Idle to Error
C10_Witness ==
  /\ hist = <<"idle", "error">>
  /\ errorMessage = MsgNoAudio
  /\ calls = {}

\* the attempt in flight, or the one that ran last, is a retry: the status
\* went from Error to Saving and has not been Saving or Cancelling since
RetryAt(i) ==
  /\ hist[i] = "error" /\ hist[i + 1] = "saving"
  /\ \A j \in (i + 2)..Len(hist) : hist[j] \notin {"saving", "cancelling", "idle"}
InRetry == \E i \in 1..(Len(hist) - 1) : RetryAt(i)

NonEmptyInputs == params.audioUrl # EmptyString /\ params.wakeUpTime # EmptyString

\* C11 (as stated): the schedule action issued in Error always sets Saving
\* and invokes both asset saves again
C11_Original ==
  [][(mounted /\ schedulingStatus = "error" /\ attempts' # attempts) =>
       (schedulingStatus' = "saving" /\ {"save_playback", "save_sound"} \subseteq calls')]_vars

\* C11 (amended): in a retry from Error with a non-empty audio reference
\* and wake time the flow runs anew from Saving: both saves are invoked
\* again, the permission gate only after them and with this attempt's
\* playback result, the cancel and the registration only after the gate;
\* a session with such inputs is in Error only after Saving or Scheduling
C11_RetryRestarts ==
  /\ InRetry =>
       /\ {"save_playback", "save_sound"} \subseteq calls
       /\ pc = "saving" => calls = {"save_playback", "save_sound"}
       /\ "permission" \in calls =>
            /\ \A k \in Kinds : co[k].pc = "done"
            /\ co["playback"].result # Null
            /\ mounted => localAudioPath = co["playback"].result
       /\ "register" \in calls => {"permission", "cancel"} \subseteq calls
       /\ (schedRes.success /\ ~OnWeb) => "register" \in calls
  /\ (mounted /\ NonEmptyInputs /\ schedulingStatus = "error") =>
       LastEdge \in {<<"saving", "error">>, <<"scheduling", "error">>}

\* a retry after an attempt that had saved the playback asset, and failed
\* later, has run the saves, the gate and the registration again
C11_Witness ==
  /\ InRetry /\ mounted /\ pc = "schedReturn"
  /\ \E i \in 1..(Len(hist) - 2) : hist[i] = "scheduling" /\ hist[i + 1] = "error" /\ RetryAt(i + 1)
  /\ schedRes.success /\ ~OnWeb
  /\ calls = {"save_playback", "save_sound", "permission", "cancel", "register"}

\* the fields of the session (playback.tsx:19-22)
sessionFields == <<schedulingStatus, errorMessage, scheduleResult, localAudioPath>>

\* C12: while the screen is unmounted no step of a schedule or cancel flow
\* changes the status, the error detail, the schedule result or the local
\* path, at whichever step the flow is
C12_DetachedSessionFrozen ==
  [][(~mounted /\ ~mounted') => UNCHANGED sessionFields]_vars

\* a flow has run on to its end after the screen was unmounted in the
\* middle of it, and the status is still the one of that moment
C12_Witness ==
  /\ ~mounted /\ pc = "none"
  /\ schedulingStatus \in {"saving", "scheduling", "cancelling"}

\* a step of the flow in flight: a collaborator call returns and the handler
\* runs on to its next suspension
FlowStep ==
  \/ \E k \in Kinds : SaveDirInfo(k)
  \/ \E k \in Kinds : SaveMakeDir(k)
  \/ \E k \in Kinds : SaveFileInfo(k)
  \/ \E k \in Kinds : SaveDelete(k)
  \/ \E k \in Kinds : SaveWrite(k)
  \/ \E k \in Kinds : SaveDownload(k)
  \/ SaveVerify("sound")
  \/ SavesDone
  \/ GetPermissions
  \/ RequestPermissions
  \/ WebPermission
  \/ CancelExisting
  \/ Register
  \/ ScheduleReturned
  \/ CancelAlarm
  \/ \E k \in Kinds : DeleteInfo(k)
  \/ \E k \in Kinds : DeleteFile(k)
  \/ CancelDone

\* one lifetime of the screen: the user's actions and the steps of the flows
\* they start
LiveNext ==
  \/ PressSchedule
  \/ FlowStep
  \/ PressCancel
  \/ Unmount
  \/ PermissionRevoked

\* the screen is opened at 10:00:00.000 on a device without registrations
\* or assets
LiveInit == Init /\ clock = 10 * MsPerHour

\* every collaborator call eventually returns
LiveSpec == LiveInit /\ [][LiveNext]_vars /\ WF_vars(FlowStep)

\* C13: when every collaborator call eventually returns, an attempt that
\* is in Saving or Scheduling reaches Scheduled or Error, unless the
\* screen is unmounted first
C13_AttemptTerminates ==
  (mounted /\ schedulingStatus \in {"saving", "scheduling"})
    ~> (~mounted \/ schedulingStatus \in {"scheduled", "error"})

\* an attempt has gone through every step of the saves and of scheduleAlarm
\* and has come to its end with the screen mounted
C13_Witness ==
  /\ mounted /\ pc = "none" /\ schedulingStatus = "scheduled"
  /\ SinceIdle = <<"idle", "saving", "scheduling", "scheduled">>
  /\ calls = {"save_playback", "save_sound", "permission", "cancel", "register"}
  /\ faults > 0

\* ------------------------------------ the trigger-time computation alone
\* wake times handed to calculateNextAlarmTime: what the pickers produce and
\* what a caller may pass besides
WakeTimes ==
  { <<"1", "1", ":", "3", "0">>, <<"0", "9", ":", "0", "0">>,
    <<"1", "0", ":", "0", "0">>, <<"0", "0", ":", "0", "0">>,
    <<"2", "3", ":", "5", "9">>, <<"2", "4", ":", "0", "0">>,
    <<"1", "0", ":", "6", "0">>, <<"a", "b", ":", "c", "d">>,
    <<"7", ":", "5">>, <<"1", "0", "3", "0">>, EmptyString }

\* the device clock at the first read (`now`), on day 0
Nows ==
  { 0, 10 * MsPerHour - 1, 10 * MsPerHour, 11 * MsPerHour + 30 * MsPerMinute,
    MsPerDay - 90 * MsPerSecond, MsPerDay - 1 }

\* how far the clock has moved when it is read the second time (`alarmTime`)
EvalDrift == {0, 1, 2 * MsPerMinute}

\* evaluations of one pair of inputs that are compared
MaxEvals == 2

evalDone == Len(evalResult)

TimeInit ==
  /\ InitScreen
  /\ platform = "ios"
  /\ clock = 10 * MsPerHour
  /\ route = 1
  /\ permission = "undetermined"
  /\ registrations = {}
  /\ fs = {}
  /\ evalArgs \in [wakeUpTime : WakeTimes, now : Nows]
  /\ evalResult = <<>>

\* one evaluation of calculateNextAlarmTime(wakeUpTime) started when the
\* clock shows evalArgs.now
EvalNextAlarmTime ==
  /\ evalDone < MaxEvals
  /\ \E d \in EvalDrift :
       evalResult' = Append(evalResult,
         [read |-> evalArgs.now + d,
          value |-> calculateNextAlarmTime(evalArgs.wakeUpTime, evalArgs.now,
                                           evalArgs.now + d)])
  /\ UNCHANGED <<evalArgs, deviceVars, faults, sessionVars, flowVars, ghostVars>>

TimeNext == EvalNextAlarmTime

TimeSpec == TimeInit /\ [][TimeNext]_vars

\* two digits, a colon, two digits, hour 0..23 and minute 0..59
ValidHHMM(w) ==
  /\ Len(w) = 5 /\ w[3] = ":"
  /\ \A i \in {1, 2, 4, 5} : IsDigit(w[i])
  /\ DigitVal(w[1]) * 10 + DigitVal(w[2]) <= 23
  /\ DigitVal(w[4]) * 10 + DigitVal(w[5]) <= 59

\* the instant at time-of-day w on the date of t, for a valid w
TimeOfDayOn(w, t) ==
  (t \div MsPerDay) * MsPerDay
    + (DigitVal(w[1]) * 10 + DigitVal(w[2])) * MsPerHour
    + (DigitVal(w[4]) * 10 + DigitVal(w[5])) * MsPerMinute

\* the evaluation read the clock twice within one minute
ReadsTogether(e) == e.read - evalArgs.now < MsPerMinute

HourMinuteInRange(w) ==
  /\ Len(Split(w, ":")) = 2
  /\ ParseWakeUpTime(w).hours \in 0..23
  /\ ParseWakeUpTime(w).minutes \in 0..59

\* C15: an evaluation of a wake time that is not an hour 0..23 and a minute
\* 0..59 fails and yields no trigger instant
C15_Original ==
  \A i \in 1..evalDone :
    ~HourMinuteInRange(evalArgs.wakeUpTime) => ~IsNum(evalResult[i].value)

\* C16: two evaluations of a valid wake time started at the same value of
\* now yield the same instant, whenever the clock is read again during
\* each of them
C16_Original ==
  \A i, j \in 1..evalDone :
    ValidHHMM(evalArgs.wakeUpTime) => evalResult[i].value = evalResult[j].value

\* --------------------------------------------------------- the permission
\* a consent request is awaiting its answer
ConsentRequested == pc \in {"requestPermissions", "webPermission"}

\* requestNotificationPermissions has returned true / false / has raised
ReturnsTrue == pc' = (IF OnWeb THEN "schedReturn" ELSE "cancelExisting") /\ "cancel" \in calls'
ReturnsFalse == pc' = "schedReturn" /\ schedRes' = ResultFailure(MsgPermissionRequired)
Raises == pc' = "schedReturn" /\ schedRes' = ResultFailure(MsgScheduleFailed) /\ faults' = faults + 1

\* C17 as stated: no consent request is issued while the state is granted
C17_Original == ConsentRequested => permission # "granted"

\* C17: off the web a call queries the state first; when the answer is
\* granted it returns true and issues no consent request, otherwise it
\* issues one; on the web with the capability every call issues one consent
\* request whatever the state; a consent request is issued only when a call
\* starts (web) or its query is answered (elsewhere), and its answer ends
\* the call, which returns true exactly when the answer is granted, or
\* raises when the request fails
C17_OneConsentRequest ==
  [][ pc' # pc =>
      /\ pc' = "webPermission" => (pc = "saving" /\ OnWeb /\ hasNotificationApi)
      /\ pc' = "getPermissions" => (pc = "saving" /\ ~OnWeb)
      /\ pc' = "requestPermissions" =>
           (pc = "getPermissions" /\ permission # "granted" /\ faults' = faults)
      /\ (pc = "getPermissions" /\ permission = "granted") => (ReturnsTrue \/ Raises)
      /\ (pc = "getPermissions" /\ permission # "granted") =>
           (pc' = "requestPermissions" \/ Raises)
      /\ ConsentRequested =>
           \/ ReturnsTrue /\ permission' = "granted"
           \/ ReturnsFalse /\ permission' # "granted"
           \/ Raises /\ permission' = permission
    ]_vars

\* a second call, made after the first was granted and registered, has
\* returned true
C17_Witness ==
  /\ ~OnWeb /\ attempts = 2 /\ pc = "cancelExisting" /\ faults = 0
  /\ okCalls = 1 /\ permission = "granted"

\* a call has issued a consent request and been refused
ConsentRefused ==
  /\ ~OnWeb /\ attempts = 1 /\ pc = "schedReturn" /\ faults = 0
  /\ schedRes = ResultFailure(MsgPermissionRequired) /\ permission = "denied"

\* ---------------------------------------------------------- cached assets
\* the save of kind k of the attempt in flight has returned its path
SaveSucceeded(k) ==
  pc = "saving" /\ ~OnWeb /\ co[k].pc = "done" /\ co[k].result # Null

\* what a file made from the source reference url holds
SourceContent(url) ==
  IF extractBase64FromDataUri(url) # Null
  THEN Decoded(Base64Decode(extractBase64FromDataUri(url)).bytes)
  ELSE Fetched(url)

EntriesAt(p) == {e \in fs : e[1] = p}

AssetsSaved(os, kinds, url) ==
  UNION {{<<DirPath(k, os), DirEntry>>, <<FilePath(k, os), SourceContent(url)>>} : k \in kinds}

\* the calls made on one device that are followed
MaxCalls == 2

callsDone == Len(evalResult)

\* no call is in flight / a call of op is, entered after `faults` failures
\* (prim: what the write or transfer of a save did, when it got there)
NoCall == [op |-> "none", kind |-> "none", faults |-> 0, prim |-> "none"]
CallOf(op, kind) == [op |-> op, kind |-> kind, faults |-> faults, prim |-> "none"]

\* a call may be made: none is in flight
MayCall == pc = "none" /\ callsDone < MaxCalls

\* the alarm an earlier scheduleAlarm call registered for 11:00 when the
\* clock showed 9:00 (alarmScheduler.ts:89-103)
PriorAlarm == AlarmRequest("Ann", Null, 2 * (MsPerHour \div MsPerSecond), 9 * MsPerHour)

\* a device with no asset, with the playback asset only, or with both, and
\* with no alarm registered or with the one an earlier call registered
CacheInit ==
  /\ InitScreen
  /\ clock = 10 * MsPerHour
  /\ route \in {1, 2, 5, 7}
  /\ registrations \in (IF OnWeb THEN {{}} ELSE {{}, {PriorAlarm}})
  /\ permission = (IF registrations = {} THEN "undetermined" ELSE "granted")
  /\ fs \in (IF OnWeb THEN {{}}
            ELSE {AssetsSaved(platform, kinds, InlineUrl) :
                    kinds \in {{}, {"playback"}, {"playback", "sound"}}})
  /\ evalArgs = NoCall
  /\ evalResult = <<>>

\* variant: the path is returned without looking at the file
getLocalAudioPathUnchecked(files, os, out) ==
  IF os = "web" THEN Null ELSE getAudioFilePath

\* getLocalAudioPath (audioStorage.ts:88-106), out being what getInfoAsync does
getLocalAudioPath(files, os, out) ==
  IF os = "web" THEN Null
  ELSE IF out = "ok" /\ Exists(files, getAudioFilePath) THEN getAudioFilePath
  ELSE Null

\* one call of getLocalAudioPath()
LoadCall ==
  /\ MayCall
  /\ \E out \in {"ok", "throw"} :
       /\ OnWeb => out = "ok"
       /\ Fault(out # "ok")
       /\ evalResult' = Append(evalResult,
            [op |-> "load", kind |-> "playback", failed |-> out # "ok",
             out |-> "returned", changed |-> FALSE, present |-> Loaded("playback"),
             result |-> getLocalAudioPath(fs, platform, out)])
  /\ UNCHANGED <<evalArgs, deviceVars, sessionVars, flowVars, ghostVars>>

\* one call of deleteLocalAudio() / deleteNotificationSound()
\* (audioStorage.ts:108-121, part_000:96-109): info and del are what
\* getInfoAsync and deleteAsync do
RemoveCall(k) ==
  /\ MayCall
  /\ \E info \in {"ok", "throw"}, del \in {"ok", "throw"} :
       LET path == FilePath(k, platform)
           queries == StartDelete(k) = CoAt("delInfo")
           deletes == queries /\ info = "ok" /\ Exists(fs, path)
           failed == (queries /\ info = "throw") \/ (deletes /\ del = "throw")
       IN /\ ~queries => info = "ok"
          /\ ~deletes => del = "ok"
          /\ Fault(failed)
          /\ fs' = IF deletes /\ del = "ok" THEN Remove(fs, path) ELSE fs
          /\ evalResult' = Append(evalResult,
               [op |-> "remove", kind |-> k, failed |-> failed,
                out |-> IF failed THEN deleteLocalAsset("throw") ELSE "returned",
                changed |-> fs' # fs, present |-> Exists(fs', path),
                result |-> Null])
  /\ UNCHANGED <<evalArgs, platform, hasNotificationApi, clock, permission, registrations,
                 sessionVars, flowVars, ghostVars>>

\* saveAudioLocally(audioUrl) / saveNotificationSound(audioUrl) is called;
\* its steps are those of the saves above
SaveStart(k) ==
  /\ MayCall
  /\ evalArgs' = CallOf("save", k)
  /\ pc' = "saving"
  /\ co' = [co EXCEPT ![k] = StartSave(k)]
  /\ UNCHANGED <<evalResult, faults, deviceVars, sessionVars, attempts, req, alarmTime,
                 resolvedAt, schedRes, ghostVars>>

\* the write / the transfer of the save that was called resolves
DirectWrite(k) ==
  /\ \E out \in WriteOutcomes :
       WriteResolves(k, out) /\ evalArgs' = [evalArgs EXCEPT !.prim = out]
  /\ UNCHANGED evalResult

DirectDownload(k) ==
  /\ \E out \in DownloadOutcomes :
       DownloadResolves(k, out) /\ evalArgs' = [evalArgs EXCEPT !.prim = out]
  /\ UNCHANGED evalResult

\* the save returns to its caller
SaveReturn ==
  /\ pc = "saving" /\ evalArgs.op = "save"
  /\ co[evalArgs.kind].pc = "done"
  /\ evalResult' = Append(evalResult,
       [op |-> "save", kind |-> evalArgs.kind, failed |-> faults > evalArgs.faults,
        out |-> "returned", changed |-> FALSE,
        present |-> Exists(fs, FilePath(evalArgs.kind, platform)),
        result |-> co[evalArgs.kind].result, prim |-> evalArgs.prim])
  /\ evalArgs' = NoCall
  /\ pc' = "none"
  /\ UNCHANGED <<faults, deviceVars, sessionVars, attempts, co, req, alarmTime,
                 resolvedAt, schedRes, ghostVars>>

\* scheduleAlarm({wakeUpTime, name, soundFileName}) is called
\* (alarmScheduler.ts:61-65); its steps are those of scheduleAlarm above
ScheduleStart ==
  /\ MayCall
  /\ evalArgs' = CallOf("schedule", "alarm")
  /\ calls' = {"permission"}
  /\ fails' = {}
  /\ IF EnterPermission = "denied"
     THEN /\ schedRes' = ResultFailure(MsgPermissionRequired)
          /\ pc' = "schedReturn"
     ELSE /\ schedRes' = NoResult
          /\ pc' = EnterPermission
  /\ UNCHANGED <<evalResult, faults, deviceVars, sessionVars, attempts, co, req, alarmTime,
                 resolvedAt, regsBefore, okCalls, hist>>

\* scheduleAlarm returns its result to its caller (104-115)
ScheduleReturn ==
  /\ pc = "schedReturn" /\ evalArgs.op = "schedule"
  /\ evalResult' = Append(evalResult,
       [op |-> "schedule", kind |-> "alarm",
        failed |-> faults > evalArgs.faults + Cardinality(fails \cap {"cancel"}),
        out |-> "returned", changed |-> FALSE,
        present |-> registrations # {}, result |-> schedRes])
  /\ evalArgs' = NoCall
  /\ pc' = "none"
  /\ UNCHANGED <<faults, deviceVars, sessionVars, attempts, co, req, alarmTime,
                 resolvedAt, schedRes, ghostVars>>

\* one call of cancelExistingAlarm() (alarmScheduler.ts:118-126)
CancelCall ==
  /\ MayCall
  /\ \E out \in {"ok", "throw"} :
       /\ OnWeb => out = "ok"
       /\ Fault(out # "ok")
       /\ registrations' = IF out = "ok" /\ ~OnWeb
                           THEN cancelScheduledNotificationAsync(registrations, ALARM_NOTIFICATION_ID)
                           ELSE registrations
       /\ evalResult' = Append(evalResult,
            [op |-> "cancel", kind |-> "alarm", failed |-> out # "ok",
             out |-> cancelExistingAlarm(out), changed |-> registrations' # registrations,
             present |-> registrations' # {}, result |-> Null])
  /\ UNCHANGED <<evalArgs, platform, hasNotificationApi, clock, permission, fs,
                 sessionVars, flowVars, ghostVars>>

\* variant: no try/catch around the listing
getScheduledAlarmNoCatch(regs, os, out, now) ==
  IF os # "web" /\ out = "throw" THEN [out |-> "raised", result |-> Null]
  ELSE [out |-> "returned", result |-> Null]

\* getScheduledAlarm (alarmScheduler.ts:128-145): out is what
\* getAllScheduledNotificationsAsync does, now is Date.now()
getScheduledAlarm(regs, os, out, now) ==
  LET alarms == {n \in regs : n.identifier = ALARM_NOTIFICATION_ID}
      alarm == CHOOSE n \in alarms : TRUE
  IN [out |-> "returned",
      result |-> IF os = "web" \/ out = "throw" \/ alarms = {} THEN Null
                 ELSE <<IF IsNum(alarm.seconds) THEN now + alarm.seconds * MsPerSecond
                        ELSE NaN>>]

\* one call of getScheduledAlarm()
GetScheduledCall ==
  /\ MayCall
  /\ \E out \in {"ok", "throw"} :
       /\ OnWeb => out = "ok"
       /\ Fault(out # "ok")
       /\ evalResult' = Append(evalResult,
            [op |-> "getScheduled", kind |-> "alarm", failed |-> out # "ok",
             out |-> getScheduledAlarm(registrations, platform, out, clock).out,
             changed |-> FALSE, present |-> registrations # {},
             result |-> getScheduledAlarm(registrations, platform, out, clock).result])
  /\ UNCHANGED <<evalArgs, deviceVars, sessionVars, flowVars, ghostVars>>

CacheNext ==
  \/ LoadCall
  \/ \E k \in Kinds : RemoveCall(k)
  \/ \E k \in Kinds : SaveStart(k)
  \/ \E k \in Kinds : SaveDirInfo(k) \/ SaveMakeDir(k) \/ SaveFileInfo(k) \/ SaveDelete(k)
                      \/ DirectWrite(k) \/ DirectDownload(k) \/ SaveVerify(k)
  \/ SaveReturn
  \/ ScheduleStart
  \/ GetPermissions
  \/ RequestPermissions
  \/ WebPermission
  \/ CancelExisting
  \/ Register
  \/ ScheduleReturn
  \/ CancelCall
  \/ GetScheduledCall

CacheSpec == CacheInit /\ [][CacheNext]_vars

\* call i + 1 is a call of `op` on the kind of call i
Then(i, op) ==
  /\ i + 1 <= callsDone
  /\ evalResult[i + 1].op = op
  /\ evalResult[i + 1].kind = evalResult[i].kind

RemovedTwice ==
  /\ callsDone = 2
  /\ \A i \in 1..2 : evalResult[i].op = "remove" /\ evalResult[i].kind = "playback"
  /\ evalResult[1].changed /\ ~evalResult[2].changed

\* C20: every call of save, load, remove, schedule, cancel and
\* getScheduled returns to its caller; when a primitive failed during the
\* call, save and load return null, remove and cancel change nothing,
\* schedule returns success = false and getScheduled returns null.  (A
\* failure of the cancel primitive inside schedule is absorbed by
\* cancelExistingAlarm; a playback write that reports success and leaves no
\* file is not reported as a failure.)
C20_NoFailurePropagates ==
  \A i \in 1..callsDone :
    LET e == evalResult[i]
    IN /\ e.out = "returned"
       /\ e.failed =>
            CASE e.op = "save" -> e.result = Null \/ (e.kind = "playback" /\ ~e.present)
              [] e.op = "schedule" -> ~e.result.success /\ e.result.error = MsgScheduleFailed
              [] e.op \in {"remove", "cancel"} -> ~e.changed
              [] OTHER -> e.result = Null

\* a schedule call whose registration primitive failed has returned
\* success = false
C20_Witness ==
  /\ callsDone >= 1 /\ pc = "none" /\ "register" \in calls
  /\ evalResult[callsDone].op = "schedule" /\ evalResult[callsDone].failed
  /\ evalResult[callsDone].result = ResultFailure(MsgScheduleFailed)

\* the write or transfer of the save behind log entry e reported success
ReportedSuccess(e) == e.prim \in {"ok", "lost"}

\* C21: where there is a local file system a save returns a result other
\* than null only when its inline payload matched the grammar and the write
\* resolved, or its transfer reported status 200; a data: reference that
\* does not match the grammar, or has no payload, returns null without a
\* write or a transfer, and a write or transfer that does not report
\* success returns null
C21_SaveResult ==
  \A i \in 1..callsDone :
    LET e == evalResult[i]
        url == params.audioUrl
    IN (e.op = "save" /\ ~OnWeb) =>
         /\ e.result # Null =>
              /\ ReportedSuccess(e)
              /\ isDataUri(url) => extractBase64FromDataUri(url) # Null
         /\ (isDataUri(url) /\ extractBase64FromDataUri(url) = Null) =>
              e.result = Null /\ e.prim = "none"
         /\ (e.prim # "none" /\ ~ReportedSuccess(e)) => e.result = Null

\* a save of a data: reference without a payload has returned null with
\* nothing written
C21_Witness ==
  /\ callsDone >= 1 /\ ~OnWeb /\ evalResult[1].op = "save"
  /\ route = 7 /\ evalResult[1].result = Null /\ faults = 0
  /\ ~Exists(fs, FilePath(evalResult[1].kind, platform))

\* a save of a remote reference has returned its path after a transfer
\* with status 200
RemoteSaved ==
  /\ callsDone >= 1 /\ ~OnWeb /\ evalResult[1].op = "save"
  /\ route = 2 /\ evalResult[1].result # Null /\ evalResult[1].prim = "ok"

C23_NoLocalFileSystem ==
  OnWeb =>
    /\ fs = {}
    /\ \A k \in Kinds : co[k].pc = "done"
    /\ \A i \in 1..callsDone :
         LET e == evalResult[i]
         IN /\ e.op = "save" =>
                 /\ e.prim = "none" /\ ~e.failed
                 /\ e.result = IF e.kind = "playback" THEN params.audioUrl ELSE Null
            /\ e.op = "load" => e.result = Null /\ ~e.failed
            /\ e.op = "remove" => ~e.changed /\ ~e.failed /\ e.out = "returned"

\* on the web a playback save has returned the inline reference and the
\* load that followed has returned null
C23_Witness ==
  /\ OnWeb /\ route = 1 /\ callsDone = 2
  /\ evalResult[1].op = "save" /\ evalResult[1].kind = "playback"
  /\ evalResult[1].result = InlineUrl
  /\ evalResult[2].op = "load" /\ evalResult[2].result = Null

\* ------------------------------------------------------ the registered delay
\* milliseconds from the clock read the delay was computed at to the
\* trigger instant of the call that has just registered
Remaining == alarmTime - req.at

\* C24 as stated: the registered delay is the larger of one second and the
\* time remaining until the trigger instant
C24_Original ==
  RegistrationCreated => req.seconds * MsPerSecond = Max(MsPerSecond, Remaining)

\* C24: the registered delay is a whole number of seconds, never below
\* one; when one second or more remains it is the time remaining cut down
\* to whole seconds, less than a second short of it
C24_RegisteredDelay ==
  RegistrationCreated =>
    /\ \E r \in registrations : r.seconds = req.seconds /\ r.at = req.at
    /\ req.seconds >= 1
    /\ Remaining < MsPerSecond => req.seconds = 1
    /\ Remaining >= MsPerSecond =>
         /\ req.seconds * MsPerSecond <= Remaining
         /\ Remaining < (req.seconds + 1) * MsPerSecond

\* a registration made less than a second before its trigger instant
\* carries a delay of one second
C24_Witness ==
  RegistrationCreated /\ Remaining >= 0 /\ Remaining < MsPerSecond /\ req.seconds = 1

\* a registration made 3599.999 s before its trigger instant carries 3599 s
DelayCutDown ==
  RegistrationCreated /\ Remaining = 3600 * MsPerSecond - 1 /\ req.seconds = 3599

\* ------------------------------------------------------- degraded success
\* C25: on the web a schedule call whose permission was granted returns
\* success with the caveat and a resolved trigger instant, and the session
\* that is still mounted reaches Scheduled carrying that caveat and instant
C25_Original ==
  /\ (OnWeb /\ pc = "schedReturn" /\ "cancel" \in calls) =>
       /\ schedRes.success /\ schedRes.error = MsgWebCaveat
       /\ schedRes.hasTime /\ IsNum(schedRes.scheduledTime)
  /\ (OnWeb /\ mounted /\ pc = "none" /\ schedRes.success) =>
       /\ schedulingStatus = "scheduled" /\ errorMessage = MsgWebCaveat
       /\ IsNum(scheduleResult[1].scheduledTime)

\* the same for wake times that are an hour and a minute in range
DegradedSuccess ==
  HourMinuteInRange(params.wakeUpTime) => C25_Original

ScheduledThenCancelled ==
  /\ callsDone = 2
  /\ evalResult[1].op = "schedule" /\ evalResult[1].present
  /\ evalResult[2].op = "cancel" /\ evalResult[2].changed /\ ~evalResult[2].present

\* the instant the platform fires registration r at: `seconds` after the
\* clock value they were counted from
TriggerInstant(r) == r.at + r.seconds * MsPerSecond

\* the imprecision allowed to a reconstructed instant
FewSeconds == 5 * MsPerSecond

\* the last call was getScheduledAlarm() and nothing was called since
ReadLast ==
  /\ pc = "none" /\ callsDone >= 1
  /\ evalResult[callsDone].op = "getScheduled"

\* C27 as stated: getScheduledAlarm() returns null when no alarm is
\* registered, and otherwise an instant within a few seconds of the
\* instant the registered alarm fires at, whatever the clock shows when it
\* is read
C27_Original ==
  ReadLast =>
    LET e == evalResult[callsDone]
    IN IF registrations = {} THEN e.result = Null
       ELSE /\ e.result # Null
            /\ \A r \in registrations :
                 /\ e.result[1] - TriggerInstant(r) <= FewSeconds
                 /\ TriggerInstant(r) - e.result[1] <= FewSeconds

\* what the code does instead: the instant returned is the stored delay
\* counted from the clock value of the read, so it is late by the time
\* that passed since the registration
ReadIsLateByElapsed ==
  (ReadLast /\ evalResult[callsDone].result # Null) =>
    \A r \in registrations :
      evalResult[callsDone].result[1] - TriggerInstant(r) = clock - r.at

\* an alarm registered an hour before was read
ReadAfterAnHour ==
  /\ ReadLast /\ evalResult[callsDone].result # Null
  /\ \E r \in registrations : clock - r.at = MsPerHour

\* an alarm was scheduled and read right away
ReadAtOnce ==
  /\ ReadLast /\ callsDone = 2 /\ evalResult[1].op = "schedule"
  /\ evalResult[2].result # Null
  /\ \A r \in registrations : clock - r.at = 0

\* the session shows Error
InError == mounted /\ schedulingStatus = "error"

\* the three messages differ from one another; the one about permission is
\* shown only after the permission step ended without a grant, the one about
\* saving only after the playback save returned null
MessageNamesStep ==
  /\ MsgPermissionRequired # MsgSaveFailed
  /\ \A m \in {MsgScheduleFailed, MsgScheduleFailedDefault} :
       m # MsgPermissionRequired /\ m # MsgSaveFailed
  /\ errorMessage = MsgPermissionRequired =>
       /\ "permission" \in calls /\ "cancel" \notin calls
       /\ fails = {} /\ ~HasPermission(permission)
  /\ errorMessage = MsgSaveFailed =>
       "permission" \notin calls /\ co["playback"] = CoDone(Null)

\* C28 as stated: in Error the session carries a message, the messages
\* differ, and each is shown only after its own step failed: the one about
\* scheduling only after the registration was refused
C28_Original ==
  InError =>
    /\ errorMessage \notin {None, ""}
    /\ MessageNamesStep
    /\ errorMessage \in {MsgScheduleFailed, MsgScheduleFailedDefault} =>
         "register" \in fails

\* C28: in Error the session carries a message, the messages differ, and
\* each is shown only after its own step failed, the one about scheduling
\* after scheduleAlarm raised inside: its registration was refused or its
\* permission query or request threw
C28_ErrorMessage ==
  InError =>
    /\ errorMessage \notin {None, ""}
    /\ MessageNamesStep
    /\ errorMessage \in {MsgScheduleFailed, MsgScheduleFailedDefault} =>
         fails \cap {"permission", "register"} # {}

\* the registration was refused and the session shows the message about
\* scheduling
C28_Witness ==
  /\ InError /\ errorMessage = MsgScheduleFailed
  /\ "register" \in fails

\* the session shows the message about permission, and the one about saving
ErrorAfterDenial == InError /\ errorMessage = MsgPermissionRequired

ErrorAfterSaveFailed == InError /\ errorMessage = MsgSaveFailed

\* the permission query threw and the session shows the message about
\* scheduling
ErrorAfterPermissionThrew ==
  /\ InError /\ errorMessage = MsgScheduleFailed
  /\ "cancel" \notin calls /\ "permission" \in fails

\* ------------------------------------------------- delivery of the alarm
\* The root layout's handlers, run on a device where an earlier call
\* registered the alarm.  evalArgs is the state of the delivery, evalResult
\* the runs of the handlers, each with whether it started the playback.

\* the two root layouts of the source: one subscribes to notification
\* responses only (index.tsx:537-582), the other to received
\* notifications, to responses and to links (index.tsx:642-689)
Layouts == {"responses", "all"}

\* the handler runs that are followed
MaxEvents == 3

\* the links the app may be opened with
Links == {"play-morning-audio", "settings"}

eventsDone == Len(evalResult)

\* how many handler runs started the playback
Plays == Cardinality({i \in 1..eventsDone : evalResult[i].played})

DeliveryInit ==
  /\ InitScreen
  /\ clock = 10 * MsPerHour
  /\ route = 1
  /\ registrations = (IF OnWeb THEN {} ELSE {PriorAlarm})
  /\ permission = (IF OnWeb THEN "undetermined" ELSE "granted")
  /\ fs \in (IF OnWeb THEN {{}}
            ELSE {AssetsSaved(platform, kinds, InlineUrl) :
                    kinds \in {{}, {"playback"}, {"playback", "sound"}}})
  /\ evalArgs \in [layout : Layouts, foreground : BOOLEAN,
                   delivered : {FALSE}, tapped : {FALSE}]
  /\ evalResult = <<>>

\* playAlarmAudio (index.tsx:607-632; inline in the first layout, 549-572):
\* whether the playback is started, info being what getInfoAsync does and
\* create what setAudioModeAsync and Sound.createAsync do
playAlarmAudio(files, os, info, create) ==
  getLocalAudioPath(files, os, info) # Null /\ create = "ok"

\* handleDeepLink's test of the parsed link (index.tsx:634-640)
handleDeepLink(url) == url = "play-morning-audio"

\* a handler run for event ev that calls playAlarmAudio
RunsPlayAlarmAudio(ev) ==
  \E info \in {"ok", "throw"}, create \in {"ok", "throw"} :
    /\ getLocalAudioPath(fs, platform, info) = Null => create = "ok"
    /\ info = "throw" => create = "ok"
    /\ Fault(info # "ok" \/ create # "ok")
    /\ evalResult' = Append(evalResult,
         [op |-> ev, played |-> playAlarmAudio(fs, platform, info, create)])

\* the app goes to the background or comes back before the alarm fires
AppStateChanges ==
  /\ ~evalArgs.delivered /\ eventsDone = 0
  /\ evalArgs' = [evalArgs EXCEPT !.foreground = ~evalArgs.foreground]
  /\ UNCHANGED <<evalResult, faults, deviceVars, sessionVars, flowVars, ghostVars>>

\* the platform delivers the registered alarm; the received listener of the
\* second layout runs when the app is in the foreground (index.tsx:660-668)
NotificationReceived ==
  /\ ~OnWeb /\ ~evalArgs.delivered /\ eventsDone < MaxEvents
  /\ \E n \in registrations :
       /\ n.identifier = ALARM_NOTIFICATION_ID
       /\ registrations' = registrations \ {n}
       /\ clock' = Max(clock, TriggerInstant(n))
       /\ evalArgs' = [evalArgs EXCEPT !.delivered = TRUE]
       /\ IF evalArgs.layout = "all" /\ evalArgs.foreground /\ n.type = "morning-alarm"
          THEN RunsPlayAlarmAudio("received")
          ELSE UNCHANGED <<evalResult, faults>>
  /\ UNCHANGED <<platform, hasNotificationApi, permission, fs,
                 sessionVars, flowVars, ghostVars>>

\* the user taps the delivered notification; the response listener of
\* either layout runs (index.tsx:544-575, 670-678)
NotificationResponse ==
  /\ ~OnWeb /\ evalArgs.delivered /\ ~evalArgs.tapped /\ eventsDone < MaxEvents
  /\ evalArgs' = [evalArgs EXCEPT !.tapped = TRUE, !.foreground = TRUE]
  /\ RunsPlayAlarmAudio("response")
  /\ UNCHANGED <<deviceVars, sessionVars, flowVars, ghostVars>>

\* the app is opened with a link; the second layout hands it to
\* handleDeepLink (index.tsx:650-658)
LinkOpened ==
  /\ ~OnWeb /\ evalArgs.layout = "all" /\ eventsDone < MaxEvents
  /\ \E url \in Links :
       IF handleDeepLink(url)
       THEN RunsPlayAlarmAudio("link")
       ELSE /\ evalResult' = Append(evalResult, [op |-> "link", played |-> FALSE])
            /\ UNCHANGED faults
  /\ evalArgs' = [evalArgs EXCEPT !.foreground = TRUE]
  /\ UNCHANGED <<deviceVars, sessionVars, flowVars, ghostVars>>

DeliveryNext ==
  \/ AppStateChanges
  \/ NotificationReceived
  \/ NotificationResponse
  \/ LinkOpened

DeliverySpec == DeliveryInit /\ [][DeliveryNext]_vars

\* C29 as stated: for the one alarm that is delivered, the handlers of the
\* received notification, of the response and of the link start the cached
\* playback not more than once, and once when the notification was tapped,
\* the asset is cached and no platform call failed
C29_Original ==
  evalArgs.delivered =>
    /\ Plays <= 1
    /\ (evalArgs.tapped /\ Loaded("playback") /\ faults = 0) => Plays = 1

\* what the code does instead: every run of the received and of the
\* response handler that finds the cached asset starts the playback,
\* whatever ran before it
EveryRunPlays ==
  (faults = 0 /\ Loaded("playback")) =>
    \A i \in 1..eventsDone : evalResult[i].op # "link" => evalResult[i].played

\* the received notification and the tap on it both started the playback
PlayedTwice ==
  /\ evalArgs.delivered /\ evalArgs.tapped /\ eventsDone = 2
  /\ evalResult[1].op = "received" /\ evalResult[1].played
  /\ evalResult[2].op = "response" /\ evalResult[2].played

\* the alarm was delivered to the app in the background and nothing played
DeliveredUnplayed ==
  /\ evalArgs.delivered /\ ~evalArgs.tapped /\ Loaded("playback")
  /\ Plays = 0

\* --------------------------------------------------- the concurrent saves
\* what the save of kind k reads and writes: its directory and its file
FilesOf(k, files) ==
  {e \in files : e[1] \in {DirPath(k, platform), FilePath(k, platform)}}

\* some step of the save of kind k
SaveStep(k) ==
  \/ SaveDirInfo(k) \/ SaveMakeDir(k) \/ SaveFileInfo(k) \/ SaveDelete(k)
  \/ SaveWrite(k) \/ SaveDownload(k) \/ SaveVerify(k)

\* a step of one save leaves the position and the result of the other
\* save, and the other kind's directory and file, as they were
StepsApart ==
  pc = "saving" =>
    \A k \in Kinds :
      co[k]' # co[k] =>
        \A j \in Kinds \ {k} :
          /\ co[j]' = co[j]
          /\ FilesOf(j, fs') = FilesOf(j, fs)

\* a save that has not returned can take its next step wherever the other
\* save is
NeverWaits ==
  pc = "saving" =>
    \A k \in Kinds : co[k].pc # "done" => ENABLED SaveStep(k)

\* C30: the two saves run by Promise.all do not race: in every
\* interleaving each step of one save leaves the other save's position and
\* result and the other kind's directory and file untouched, so each save
\* returns what it returns, and leaves at its path what it leaves, when the
\* two run one after the other
C30_SavesDoNotRace == [][StepsApart]_vars

\* both saves are under way, the notification sound's ahead of the
\* playback's
C30_Witness ==
  /\ pc = "saving"
  /\ co["playback"].pc = "fileInfo" /\ co["sound"].pc = "verify"
  /\ Exists(fs, FilePath("sound", platform))
  /\ ~Exists(fs, FilePath("playback", platform))

\* the playback save has returned while the other is still at its
\* directory
PlaybackSavedFirst ==
  /\ pc = "saving"
  /\ co["playback"] = CoDone(SavedResult("playback")) /\ co["sound"].pc = "mkdir"

\* ------------------------------------------------------ what a call touches
\* the call a step belongs to: the one that returns in the step, or else
\* the one in flight
Acting ==
  IF Len(evalResult') > Len(evalResult)
  THEN [op |-> evalResult'[Len(evalResult')].op, kind |-> evalResult'[Len(evalResult')].kind]
  ELSE [op |-> evalArgs.op, kind |-> evalArgs.kind]

\* the entries of the file system that are files
FilesIn(files) == {e \in files : e[2] # DirEntry}

\* a step that changes a file or directory belongs to a save or a remove,
\* and it changes none of the other kind and no registration; a step that
\* changes the registrations belongs to schedule or cancel and changes no
\* file
TouchesOwnPart ==
  /\ fs' # fs =>
       /\ Acting.op \in {"save", "remove"}
       /\ \A j \in Kinds \ {Acting.kind} : FilesOf(j, fs') = FilesOf(j, fs)
       /\ registrations' = registrations
  /\ registrations' # registrations =>
       /\ Acting.op \in {"schedule", "cancel"}
       /\ fs' = fs
  /\ \A e \in FilesIn(fs') : \E k \in Kinds : e[1] = FilePath(k, platform)
  /\ \A n \in registrations' : n.identifier = ALARM_NOTIFICATION_ID
  /\ Cardinality(registrations') <= 1

\* C31: only the two fixed paths and the one identifier are ever written;
\* a save or remove of one kind leaves the other kind's asset and the
\* registration as they were, and schedule, cancel and getScheduled leave
\* both assets as they were
C31_TouchesOwnPart == [][TouchesOwnPart]_vars

\* the notification sound was saved beside the playback asset and the
\* alarm that were there, and both are still there
C31_Witness ==
  /\ callsDone >= 1 /\ evalResult[1].op = "save" /\ evalResult[1].kind = "sound"
  /\ evalResult[1].result # Null
  /\ Loaded("playback") /\ Loaded("sound") /\ registrations = {PriorAlarm}

\* an alarm was scheduled on a device that holds both assets
ScheduledBesideAssets ==
  /\ callsDone >= 1 /\ evalResult[1].op = "schedule" /\ evalResult[1].result.success
  /\ Loaded("playback") /\ Loaded("sound") /\ registrations # {}

\* ------------------------------------------ the kind of a source reference
\* in this step the save of kind k, having found or made its path clear,
\* looks at the source reference
Classifies(k) ==
  /\ pc = "saving" /\ co[k].pc \in {"fileInfo", "delete"}
  /\ co[k]' # co[k] /\ faults' = faults
  /\ co[k]'.pc # "delete"

\* C32 as stated: a reference that does not match the inline grammar,
\* also one that starts with data:, is handed to the transfer
C32_Original ==
  [][\A k \in Kinds :
       (Classifies(k) /\ extractBase64FromDataUri(params.audioUrl) = Null) =>
         co[k]'.pc = "download"]_vars

\* C32: a reference that does not start with data: is handed to the
\* transfer; one that starts with data: is written when it matches the
\* inline grammar, and otherwise the save returns null without a transfer
C32_RemoteOrInline ==
  [][\A k \in Kinds :
       Classifies(k) =>
         co[k]' = (IF ~isDataUri(params.audioUrl) THEN CoAt("download")
                   ELSE IF extractBase64FromDataUri(params.audioUrl) = Null
                   THEN CoDone(Null)
                   ELSE CoAt("write"))]_vars

\* a reference that does not start with data: is at the transfer
C32_Witness ==
  /\ pc = "saving" /\ ~isDataUri(params.audioUrl)
  /\ \E k \in Kinds : co[k].pc = "download"

\* a save of a data: reference that does not match has returned null with
\* no platform call failing
MalformedInlineRejected ==
  /\ callsDone >= 1 /\ evalResult[1].op = "save" /\ ~evalResult[1].failed
  /\ isDataUri(params.audioUrl) /\ extractBase64FromDataUri(params.audioUrl) = Null
  /\ evalResult[1].result = Null /\ evalResult[1].prim = "none"

\* ------------------------------------------------ the alarm and its audio
\* C33 as stated: whenever an alarm is registered the playback asset is at
\* its fixed path, also while a later session on the device schedules again
C33_Original ==
  registrations # {} => Loaded("playback")

\* an alarm from an earlier session is registered, the screen was opened
\* again with a data: reference that does not match, and its attempt has
\* removed the playback asset and written none, no platform call failing
AlarmLeftWithoutAudio ==
  /\ registrations # {} /\ registrations = regsBefore /\ faults = 0
  /\ mounted /\ schedulingStatus = "error" /\ errorMessage = MsgSaveFailed
  /\ ~Loaded("playback")

\* --------------------------------------------------- a schedule that fails
\* C34 as stated: when scheduleAlarm returns success = false the
\* registrations are what they were when the attempt started
C34_Original ==
  (pc = "schedReturn" /\ ~schedRes.success) => registrations = regsBefore

\* what the code keeps: a call that fails before cancelExistingAlarm is
\* entered leaves the registrations as they were
FailureBeforeCancelKeeps ==
  (pc = "schedReturn" /\ ~schedRes.success /\ "cancel" \notin calls) =>
    registrations = regsBefore

\* the alarm of an earlier session was cancelled by a call that then failed
\* to register the new one
OldAlarmLost ==
  /\ pc = "schedReturn" /\ schedRes = ResultFailure(MsgScheduleFailed)
  /\ regsBefore # {} /\ registrations = {}

\* a call that was refused permission has left the alarm of an earlier
\* session in place
OldAlarmKept ==
  /\ pc = "schedReturn" /\ schedRes = ResultFailure(MsgPermissionRequired)
  /\ regsBefore # {} /\ registrations = regsBefore

\* ------------------------------------------------------ a save that fails
\* C35 as stated: where there is a local file system, after a save that
\* returned null nothing is at the kind's fixed path, and a load that
\* follows returns null
C35_Original ==
  \A i \in 1..callsDone :
    (evalResult[i].op = "save" /\ ~OnWeb /\ evalResult[i].result = Null) =>
      /\ ~evalResult[i].present
      /\ Then(i, "load") => evalResult[i + 1].result = Null

\* what the code keeps: a save that returned null with no platform call
\* failing (its reference did not match) has left nothing at the path
RejectedSaveLeavesNothing ==
  \A i \in 1..callsDone :
    (evalResult[i].op = "save" /\ ~OnWeb /\ evalResult[i].result = Null
       /\ ~evalResult[i].failed) => ~evalResult[i].present

\* a playback save returned null and the load that followed returned the
\* path all the same
LoadAfterFailedSave ==
  /\ callsDone = 2
  /\ evalResult[1].op = "save" /\ evalResult[1].kind = "playback"
  /\ evalResult[1].result = Null
  /\ evalResult[2].op = "load" /\ evalResult[2].result # Null

\* -------------------------------------- an attempt without its own sound
\* the playback save returned its path and the notification-sound save
\* returned null
OnlyPlaybackSaved ==
  /\ \A k \in Kinds : co[k].pc = "done"
  /\ co["playback"].result # Null /\ co["sound"].result = Null

\* with only the playback asset saved, the step that follows the saves
\* takes the mounted session to Scheduling, and the step that follows a
\* successful scheduleAlarm takes it to Scheduled, the alarm that was
\* registered asking for the default sound
ProceedsWithoutSound ==
  (mounted /\ OnlyPlaybackSaved /\ pc' # pc) =>
    /\ pc = "saving" =>
         /\ schedulingStatus' = "scheduling" /\ localAudioPath' = co["playback"].result
         /\ pc' \in {"getPermissions", "webPermission", "schedReturn"}
    /\ (pc = "schedReturn" /\ schedRes.success) =>
         /\ schedulingStatus' = "scheduled"
         /\ ~OnWeb => \E n \in registrations' : n = req /\ n.sound = DefaultSound

\* C36: a notification-sound save that returns null does not fail the
\* attempt: when the playback save succeeded the flow goes on to
\* Scheduling and, permission granted and the registration made, reaches
\* Scheduled with the registration using the default sound
C36_NullSoundTolerated == [][ProceedsWithoutSound]_vars

\* the session is Scheduled, its alarm registered with the default sound,
\* after an attempt whose notification-sound save returned null
C36_Witness ==
  /\ mounted /\ schedulingStatus = "scheduled" /\ pc = "none" /\ ~OnWeb
  /\ OnlyPlaybackSaved /\ Loaded("playback")
  /\ \E n \in registrations : n.sound = DefaultSound

\* ------------------------------------------------------ one flow at a time
\* the statuses shown while a flow is in flight
Busy == {"saving", "scheduling", "cancelling"}

\* the mounted session shows Saving, Scheduling or Cancelling exactly while
\* a flow of its own is in flight; the schedule action runs only from Idle
\* or Error and the cancel action only from Scheduled, and neither while a
\* flow is in flight
OneFlow ==
  /\ mounted => ((pc # "none") = (schedulingStatus \in Busy))
  /\ attempts' # attempts =>
       /\ mounted /\ pc = "none"
       /\ schedulingStatus \in {"idle", "error"}
  /\ (pc' = "cancelAlarm" /\ pc # "cancelAlarm") =>
       /\ mounted /\ pc = "none"
       /\ schedulingStatus = "scheduled"

\* C37: at most one schedule or cancel flow is in flight in a session: the
\* schedule action starts only while the status is Idle or Error, the
\* cancel action only while it is Scheduled, and no flow starts while it is
\* Saving, Scheduling or Cancelling
C37_OneFlowInFlight == [][OneFlow]_vars

\* a second attempt was started from Error and is in flight
C37_Witness ==
  /\ mounted /\ attempts = 2 /\ pc = "saving" /\ schedulingStatus = "saving"
  /\ "error" \in Statuses(hist)

\* a cancel flow started from Scheduled is in flight
CancelInFlight ==
  mounted /\ pc = "cancelAlarm" /\ schedulingStatus = "cancelling"

\* ------------------------------------------- detaching during an attempt
\* the positions inside scheduleAlarm before it returns
InScheduleAlarm ==
  {"getPermissions", "requestPermissions", "webPermission", "cancelExisting", "register"}

\* a session unmounted while its saves were in flight keeps the status
\* saving: its attempt ends with the saves, without the permission step and
\* with the registrations and the files the saves left; a scheduleAlarm call
\* in flight when the session is unmounted runs on to its return, and its
\* registration is made
DetachedAttempt ==
  /\ (~mounted /\ schedulingStatus = "saving") =>
       /\ pc \in {"saving", "none"}
       /\ "permission" \notin calls
       /\ registrations = regsBefore
  /\ (~mounted /\ pc = "saving" /\ pc' # pc) =>
       pc' = "none" /\ fs' = fs /\ registrations' = registrations
  /\ (~mounted /\ pc \in InScheduleAlarm /\ pc' # pc) =>
       /\ pc' \in InScheduleAlarm \cup {"schedReturn"}
       /\ (pc = "register" /\ schedRes'.success) => req \in registrations'

\* C38: an attempt whose session detaches while the saves are in flight
\* stops after the saves: it invokes neither the permission gate nor the
\* registration and creates no registration, and the assets saved stay;
\* one whose session detaches while scheduleAlarm is in flight still runs
\* the registration to completion
C38_DetachedAttempt == [][DetachedAttempt]_vars

\* the session was unmounted during the saves; they have ended, the
\* playback asset is cached, and the attempt is over with nothing
\* registered
C38_Witness ==
  /\ ~mounted /\ schedulingStatus = "saving" /\ pc = "none"
  /\ co["playback"].result # Null /\ Loaded("playback")
  /\ registrations = {}

\* the session was unmounted during scheduleAlarm, which has registered the
\* alarm all the same
RegisteredWhileDetached ==
  /\ ~mounted /\ schedulingStatus = "scheduling" /\ pc = "schedReturn"
  /\ schedRes.success /\ req \in registrations

\* ------------------------------------------------------ a missing input
\* the screen was opened without an audio reference or without a wake time
InputMissing == params.audioUrl = EmptyString \/ params.wakeUpTime = EmptyString

\* a schedule action with an input missing sets Error and a message and
\* does nothing else: no flow is started, no collaborator is noted as called
\* and the files, the permission and the registrations stay as they are;
\* and no flow is ever in flight on such a screen
StopsAtMissingInput ==
  /\ (InputMissing /\ attempts' # attempts) =>
       /\ schedulingStatus' = "error"
       /\ errorMessage' = (IF params.audioUrl = EmptyString THEN MsgNoAudio
                           ELSE MsgNoWakeUpTime)
       /\ pc' = "none" /\ calls' = {}
       /\ fs' = fs /\ permission' = permission /\ registrations' = registrations
       /\ faults' = faults
  /\ (InputMissing /\ mounted) => (pc = "none" /\ calls = {})

\* C39: a schedule action issued with an empty audio reference or an empty
\* wake time takes the session to Error with a message and invokes no
\* collaborator: nothing is saved or deleted, no permission is queried or
\* requested, no registration is created or cancelled
C39_MissingInput == [][StopsAtMissingInput]_vars

\* the session is in Error for a missing wake time, on a device that still
\* holds the alarm and the asset of an earlier session
C39_Witness ==
  /\ mounted /\ schedulingStatus = "error" /\ errorMessage = MsgNoWakeUpTime
  /\ attempts >= 1 /\ calls = {}
  /\ registrations # {} /\ Loaded("playback")

\* the session is in Error for a missing audio reference
ErrorForMissingAudio ==
  mounted /\ schedulingStatus = "error" /\ errorMessage = MsgNoAudio /\ calls = {}

\* ------------------------------------------- what the session holds when
\* C40 as stated: a session that shows Scheduled holds a successful result
\* with a resolved trigger instant; one that shows Idle holds no message,
\* no result and no local path; one that shows Saving holds no message
C40_Original ==
  /\ schedulingStatus = "scheduled" =>
       /\ scheduleResult # Null
       /\ scheduleResult[1].success /\ scheduleResult[1].hasTime
       /\ IsNum(scheduleResult[1].scheduledTime)
  /\ schedulingStatus = "idle" =>
       errorMessage = None /\ scheduleResult = Null /\ localAudioPath = Null
  /\ schedulingStatus = "saving" => errorMessage = None

\* the same for wake times that are an hour and a minute in range
SessionHoldsForValidTime ==
  HourMinuteInRange(params.wakeUpTime) => C40_Original

\* the session shows Scheduled and the instant it holds is no instant
ScheduledWithoutInstant ==
  /\ mounted /\ schedulingStatus = "scheduled" /\ scheduleResult # Null
  /\ scheduleResult[1].success /\ ~IsNum(scheduleResult[1].scheduledTime)

\* the session is back to Idle after a cancel and holds nothing
IdleAfterCancel ==
  /\ mounted /\ schedulingStatus = "idle" /\ "cancelling" \in Statuses(hist)
  /\ scheduleResult = Null /\ localAudioPath = Null /\ errorMessage = None

====
